---- MODULE Spec2Model ----
(***************************************************************************)
(* A model of the RPC lifecycle of Homa (homa_utils.c): creation of client *)
(* and server RPCs, lookup, the two-phase teardown (homa_rpc_free and      *)
(* homa_rpc_reap) and the walkers of the active list, run by preemptive    *)
(* threads that interleave at every lock acquisition.                      *)
(***************************************************************************)
EXTENDS Integers, Sequences, FiniteSets, TLC

\* ---------------------------------------------------------------- bounds
\* Number of homa_rpc records that can ever be allocated (slots 1..MaxRpcs).
MaxRpcs == 2
\* Number of buckets in each of the two hash tables of a socket.
NumBuckets == 1
\* Largest value next_outgoing_id may reach before new_client stops being called.
MaxId == 4
\* Largest number of packet buffers a caller attaches to one message.
MaxSkbs == 2
\* Largest budget (count) handed to homa_rpc_reap.
MaxCount == 4

\* Largest number of bpages a region handed to homa_pool_init may hold.
MaxPages == 4
\* Size of a bpage (HOMA_BPAGE_SIZE), in the unit in which lengths are counted.
BpageSize == 2
\* Largest message length handed to homa_pool_allocate.
MaxLen == 7

\* ------------------------------------------------------ program constants
\* BATCH_MAX of homa_rpc_reap (the value compiled for unit tests).
BATCH_MAX == 3
\* Initial value of homa->next_outgoing_id.
FirstId == 2

\* Fewest bpages beyond the used ones that a scan for free bpages considers.
MIN_EXTRA == 4

\* Fewest bpages a pool may have: a region of 3 bpages is refused, 100 are accepted.
MIN_POOL_SIZE == 4

Threads == {1, 2}
Rpcs == 1..MaxRpcs
\* NULL pointer; also the head of the active list in anext.
NULL == 0
BucketIds == {"c", "s"} \X (0..(NumBuckets - 1))
\* Ids a server RPC may carry (low bit set), source ports and source addresses.
ServerIds == {1}
Ports == {1, 2}
Addrs == {1}
\* Destinations (port, address) a client RPC is sent to.
Dests == {<<1, 1>>}
\* Numbers of bpages homa_message_in_init may obtain for a new server RPC.
Bpages == {0}
\* Numbers of bpages it may obtain when the socket has a buffer pool.
PoolPages == {0, 1}
\* Whether the first packet of a new server RPC may be at offset 0.
Offset0 == {FALSE}
\* What an uninitialized int may hold when it is read.
UninitInts == {-1, 0, 1}

\* The number of priority levels struct homa has room for, the message length
\* that no message exceeds, and the largest int.
HOMA_MAX_PRIORITIES == 8
HOMA_MAX_MESSAGE_LENGTH == 1000000
INT_MAX == 2147483647
\* The indexes of homa->unsched_cutoffs.
PrioIndexes == 0..(HOMA_MAX_PRIORITIES - 1)
\* How many calls of homa_prios_changed are followed.
MaxCalls == 3
\* How many ints below unsched_cutoffs[0] the loop of homa_prios_changed is followed.
MaxBelow == 3
\* No call of homa_prios_changed is under way.
NoPrios == [at |-> "idle", i |-> 0, wrote |-> {}, old_version |-> 0]

Min(a, b) == IF a < b THEN a ELSE b

\* ------------------------------------------------------------------ state
VARIABLES
    alloc,            \* alloc[r]: "none" (never allocated), "live", "freed" (kfree'd)
    rpc,              \* rpc[r]: the fields of record r
    anext,            \* anext[x]: active_links.next of record x (x = 0: hsk->active_rpcs)
    bucketRpcs,       \* bucketRpcs[b]: bucket->rpcs, head first
    bucketLock,       \* bucketLock[b]: thread holding bucket->lock, or 0
    sockLock,         \* thread holding the socket lock, or 0
    dead_rpcs,        \* hsk->dead_rpcs
    shutdown,         \* hsk->shutdown
    protect_count,    \* hsk->protect_count
    dead_skbs,        \* hsk->dead_skbs
    next_outgoing_id, \* homa->next_outgoing_id
    pc,               \* pc[t]: where thread t is
    lv,               \* lv[t]: the locals of the function thread t is running
    assigned,         \* history: the ids returned by the fetch-add, in order
    freeDone,         \* history: records for which a homa_rpc_free call has returned
    lent,             \* bpages of hsk->buffer_pool that records hold (msgin.bpage_offsets)
    pool,             \* struct homa_pool: region, num_bpages, free_bpages
    descriptors,      \* descriptors[p]: refs, owner, lease and lock of bpage p
    cores,            \* cores[c]: page_hint, allocated and next_candidate of core c
    ppc,              \* ppc[c]: where core c is inside a pool function
    plv,              \* plv[c]: the locals of the pool function core c is running
    msgin,            \* msgin[m]: the bpage_offsets of message m
    homa,             \* struct homa: num_priorities, unsched_cutoffs, max_sched_prio,
                      \* cutoff_version
    prios             \* where a call of homa_prios_changed is, its i and what it wrote

\* The state of the RPC lifecycle.
rpcVars == <<alloc, rpc, anext, bucketRpcs, bucketLock, sockLock, dead_rpcs, shutdown,
             protect_count, dead_skbs, next_outgoing_id, pc, lv, assigned, freeDone, lent>>

\* The state of the buffer pool itself.
poolVars == <<pool, descriptors, cores, ppc, plv, msgin>>

\* The priority configuration of struct homa and a call of homa_prios_changed.
prioVars == <<homa, prios>>

vars == <<rpcVars, poolVars, prioVars>>

\* The contents of a slot that holds no record.
NoRpc == [id |-> 0, state |-> "NONE", dport |-> 0, peer |-> 0, bucket |-> <<"c", 0>>,
          cant_reap |-> FALSE, pkts_ready |-> FALSE, grants_in_progress |-> 0,
          active_xmits |-> 0, msgout_length |-> -1, num_skbs |-> 0,
          msgin_length |-> -1, msgin_packets |-> 0, num_bpages |-> 0, magic |-> 0,
          interest |-> 0, on_ready |-> FALSE, on_buf |-> FALSE]

\* The locals of an idle thread.
NoLocals == [r |-> NULL, err |-> "", id |-> 0, sport |-> 0, saddr |-> 0, created |-> -1,
             op |-> "", count |-> 0, budget |-> 0, batch_size |-> 0, num_skbs |-> 0,
             rx_frees |-> 0, result |-> 0, rpcs |-> <<>>, i |-> 0, total_skbs |-> 0,
             cur |-> NULL, reg_rpc |-> 0, woken |-> 0]

\* The cores that run pool functions, the bpages a region can hold, the messages.
Cores == {1, 2}
Pages == 0..(MaxPages - 1)
Msgs == {1, 2}

\* A bpage nobody has touched, the per-core state after homa_pool_init, the locals
\* of a core that is in no pool function, and a message without buffers.
NoBpage == [refs |-> 0, owner |-> -1, lease |-> FALSE, lock |-> 0]
NoCore == [page_hint |-> 0, allocated |-> 0, next_candidate |-> 0]
NoPoolLocals == [ret |-> 0, count |-> 0, set_owner |-> FALSE, pages |-> <<>>,
                 cur |-> 0, limit |-> 0, msg |-> 0, full |-> 0, tail |-> 0,
                 caller |-> "", gave_up |-> -1, dfree |-> 0,
                 drefs |-> [p \in Pages |-> 0]]
NoMsg == [offsets |-> <<>>, tail |-> 0]

\* A pool on which homa_pool_init has not succeeded.
NoPool == [region |-> "NULL", num_bpages |-> 0, free_bpages |-> 0,
           aligned |-> TRUE, length |-> 0, init_ret |-> "none"]

\* ------------------------------------------------------------ list helpers
SeqToSet(s) == {s[k] : k \in 1..Len(s)}

RECURSIVE Remove(_, _)
Remove(s, x) ==
    IF s = <<>> THEN <<>>
    ELSE IF Head(s) = x THEN Remove(Tail(s), x)
    ELSE <<Head(s)>> \o Remove(Tail(s), x)

\* The records on the active list, following next pointers from the list head.
RECURSIVE ActiveFrom(_, _, _)
ActiveFrom(an, x, fuel) ==
    IF x = NULL \/ fuel = 0 THEN <<>>
    ELSE <<x>> \o ActiveFrom(an, an[x], fuel - 1)

ActiveSeq(an) == ActiveFrom(an, an[NULL], MaxRpcs)
OnActive(an, r) == r \in SeqToSet(ActiveSeq(an))

\* list_add_tail_rcu(&r->active_links, &hsk->active_rpcs)
ListAddTail(an, r) ==
    LET s == ActiveSeq(an)
        last == IF s = <<>> THEN NULL ELSE s[Len(s)]
    IN [an EXCEPT ![r] = NULL, ![last] = r]

\* A homa_rpc_free that leaves the record on the active list.
ListDelRcuForgotten(an, r) == an

\* list_del_rcu(&r->active_links): the predecessor skips r; r keeps its next pointer.
ListDelRcu(an, r) ==
    LET s == ActiveSeq(an)
        k == CHOOSE j \in 1..Len(s) : s[j] = r
        prev == IF k = 1 THEN NULL ELSE s[k - 1]
    IN IF r \in SeqToSet(s) THEN [an EXCEPT ![prev] = an[r]] ELSE an

\* homa_client_rpc_bucket / homa_server_rpc_bucket: the bucket is fixed by the id;
\* the two tables have separate buckets.
ClientBucket(id) == <<"c", id % NumBuckets>>
ServerBucket(id) == <<"s", id % NumBuckets>>

\* The first record of a bucket list that satisfies Match, or NULL.
FirstMatch(s, Match(_)) ==
    LET idx == {k \in 1..Len(s) : Match(s[k])}
    IN IF idx = {} THEN NULL
       ELSE s[CHOOSE k \in idx : \A j \in idx : k <= j]

\* kmalloc hands out the lowest slot never used before.
FreshSlot == CHOOSE r \in Rpcs : alloc[r] = "none" /\ \A q \in Rpcs : q < r => alloc[q] # "none"
HaveSlot == \E r \in Rpcs : alloc[r] = "none"

\* The locks thread t holds.
HeldBuckets(t) == {b \in BucketIds : bucketLock[b] = t}

TypeOK ==
    /\ alloc \in [Rpcs -> {"none", "live", "freed"}]
    /\ sockLock \in Threads \cup {0}
    /\ shutdown \in BOOLEAN
    /\ protect_count \in Nat

Init ==
    /\ alloc = [r \in Rpcs |-> "none"]
    /\ rpc = [r \in Rpcs |-> NoRpc]
    /\ anext = [x \in 0..MaxRpcs |-> NULL]
    /\ bucketRpcs = [b \in BucketIds |-> <<>>]
    /\ bucketLock = [b \in BucketIds |-> 0]
    /\ sockLock = 0
    /\ dead_rpcs = <<>>
    /\ shutdown = FALSE
    /\ protect_count = 0
    /\ dead_skbs = 0
    /\ next_outgoing_id = FirstId
    /\ pc = [t \in Threads |-> "idle"]
    /\ lv = [t \in Threads |-> NoLocals]
    /\ assigned = <<>>
    /\ freeDone = {}
    /\ lent = 0
    /\ pool = NoPool
    /\ descriptors = [p \in Pages |-> NoBpage]
    /\ cores = [c \in Cores |-> NoCore]
    /\ ppc = [c \in Cores |-> "idle"]
    /\ plv = [c \in Cores |-> NoPoolLocals]
    /\ msgin = [m \in Msgs |-> NoMsg]
    /\ homa = [num_priorities |-> HOMA_MAX_PRIORITIES,
               unsched_cutoffs |->
                   [i \in PrioIndexes |->
                      CASE i = HOMA_MAX_PRIORITIES - 1 -> 200
                        [] i = HOMA_MAX_PRIORITIES - 2 -> 2800
                        [] i = HOMA_MAX_PRIORITIES - 3 -> 15000
                        [] i = HOMA_MAX_PRIORITIES - 4 -> HOMA_MAX_MESSAGE_LENGTH
                        [] OTHER -> 0],
               max_sched_prio |-> HOMA_MAX_PRIORITIES - 5,
               cutoff_version |-> 0]
    /\ prios = NoPrios

\* ------------------------------------------------------- thread bookkeeping
SetPc(t, where) == pc' = [pc EXCEPT ![t] = where]
Lock(b, t) == bucketLock' = [bucketLock EXCEPT ![b] = t]

\* kfree(r): the memory is gone and the slot is never handed out again.
Kfree(al, r) == [al EXCEPT ![r] = "freed"]

\* ----------------------------------------------------- homa_rpc_new_client
\* A fetch-add that advances the counter by one only.
FetchAddByOne(x) == x + 1

\* atomic64_fetch_add(2, &hsk->homa->next_outgoing_id): the new counter value.
FetchAdd(x) == x + 2

\* The record homa_rpc_new_client builds before it takes any lock.
NewClientRpc(id, dport, addr) ==
    [NoRpc EXCEPT !.id = id, !.bucket = ClientBucket(id), !.state = "OUTGOING",
                  !.peer = addr, !.dport = dport, !.magic = 1]

\* kmalloc, the id fetch-add, homa_peer_find and the lock-free initialisation.
NcAlloc(t) ==
    /\ pc[t] = "idle"
    /\ HaveSlot
    /\ next_outgoing_id <= MaxId
    /\ \E outcome \in {"nomem", "peerfail", "ok"}, dest \in Dests :
        IF outcome = "nomem"
        THEN /\ SetPc(t, "ret")
             /\ lv' = [lv EXCEPT ![t] = [NoLocals EXCEPT !.err = "ENOMEM"]]
             /\ UNCHANGED <<alloc, rpc, next_outgoing_id, assigned>>
        ELSE /\ next_outgoing_id' = FetchAdd(next_outgoing_id)
             /\ assigned' = Append(assigned, next_outgoing_id)
             /\ IF outcome = "peerfail"
                THEN /\ SetPc(t, "ret")
                     /\ lv' = [lv EXCEPT ![t] = [NoLocals EXCEPT !.err = "EPEER"]]
                     /\ UNCHANGED <<alloc, rpc>>
                ELSE /\ alloc' = [alloc EXCEPT ![FreshSlot] = "live"]
                     /\ rpc' = [rpc EXCEPT ![FreshSlot] =
                                   NewClientRpc(next_outgoing_id, dest[1], dest[2])]
                     /\ SetPc(t, "nc_lock_bucket")
                     /\ lv' = [lv EXCEPT ![t] = [NoLocals EXCEPT !.op = "new_client",
                                                                 !.r = FreshSlot]]
    /\ UNCHANGED <<lent, anext, bucketRpcs, bucketLock, sockLock, dead_rpcs, shutdown,
                   protect_count, dead_skbs, freeDone>>
    /\ UNCHANGED <<poolVars, prioVars>>

\* homa_bucket_lock(bucket, crpc->id, ...)
NcLockBucket(t) ==
    /\ pc[t] = "nc_lock_bucket"
    /\ bucketLock[rpc[lv[t].r].bucket] = 0
    /\ Lock(rpc[lv[t].r].bucket, t)
    /\ SetPc(t, "nc_lock_sock")
    /\ UNCHANGED <<lent, alloc, rpc, anext, bucketRpcs, sockLock, dead_rpcs, shutdown,
                   protect_count, dead_skbs, next_outgoing_id, lv, assigned, freeDone>>
    /\ UNCHANGED <<poolVars, prioVars>>

\* homa_sock_lock(hsk, ...)
NcLockSock(t) ==
    /\ pc[t] = "nc_lock_sock"
    /\ sockLock = 0
    /\ sockLock' = t
    /\ SetPc(t, "nc_publish")
    /\ UNCHANGED <<lent, alloc, rpc, anext, bucketRpcs, bucketLock, dead_rpcs, shutdown,
                   protect_count, dead_skbs, next_outgoing_id, lv, assigned, freeDone>>
    /\ UNCHANGED <<poolVars, prioVars>>

\* A publication that does not look at hsk->shutdown.
PublishNeverRefused == FALSE

\* Does the publication code refuse to publish?
PublishRefused == shutdown

\* The shutdown check and the publication, up to the return.
NcPublish(t) ==
    LET r == lv[t].r
        b == rpc[r].bucket
    IN
    /\ pc[t] = "nc_publish"
    /\ sockLock' = 0
    /\ IF PublishRefused
       THEN /\ Lock(b, 0)
            /\ alloc' = Kfree(alloc, r)
            /\ rpc' = [rpc EXCEPT ![r] = NoRpc]
            /\ SetPc(t, "ret")
            /\ lv' = [lv EXCEPT ![t] = [NoLocals EXCEPT !.err = "ESHUTDOWN"]]
            /\ UNCHANGED <<bucketRpcs, anext>>
       ELSE /\ bucketRpcs' = [bucketRpcs EXCEPT ![b] = <<r>> \o @]
            /\ anext' = ListAddTail(anext, r)
            /\ SetPc(t, "held")
            /\ UNCHANGED <<alloc, rpc, bucketLock, lv>>
    /\ UNCHANGED <<lent, dead_rpcs, shutdown, protect_count, dead_skbs, next_outgoing_id,
                   assigned, freeDone>>
    /\ UNCHANGED <<poolVars, prioVars>>

\* ----------------------------------------------- the caller of new_* / find_*
\* A function has returned an error, NULL or an int: the caller goes on.
RetDone(t) ==
    /\ pc[t] = "ret"
    /\ SetPc(t, "idle")
    /\ lv' = [lv EXCEPT ![t] = NoLocals]
    /\ UNCHANGED <<lent, alloc, rpc, anext, bucketRpcs, bucketLock, sockLock, dead_rpcs,
                   shutdown, protect_count, dead_skbs, next_outgoing_id, assigned, freeDone>>
    /\ UNCHANGED <<poolVars, prioVars>>

\* homa_rpc_unlock(rpc) by the caller that was handed the locked record.
CallerUnlock(t) ==
    /\ pc[t] = "held"
    /\ Lock(rpc[lv[t].r].bucket, 0)
    /\ SetPc(t, "idle")
    /\ lv' = [lv EXCEPT ![t] = NoLocals]
    /\ UNCHANGED <<lent, alloc, rpc, anext, bucketRpcs, sockLock, dead_rpcs, shutdown,
                   protect_count, dead_skbs, next_outgoing_id, assigned, freeDone>>
    /\ UNCHANGED <<poolVars, prioVars>>

\* The caller fills the outgoing message of the record it holds (homa_message_out_init).
CallerFill(t) ==
    /\ pc[t] = "held"
    /\ rpc[lv[t].r].state # "DEAD"
    /\ rpc[lv[t].r].msgout_length < 0
    /\ \E n \in 1..MaxSkbs :
        rpc' = [rpc EXCEPT ![lv[t].r] = [@ EXCEPT !.msgout_length = n, !.num_skbs = n]]
    /\ UNCHANGED <<lent, alloc, anext, bucketRpcs, bucketLock, sockLock, dead_rpcs, shutdown,
                   protect_count, dead_skbs, next_outgoing_id, pc, lv, assigned, freeDone>>
    /\ UNCHANGED <<poolVars, prioVars>>

\* ----------------------------------------------------------- homa_rpc_free
\* homa_grant_free_rpc may release the RPC lock and take it again; it can only have
\* work to do for a record whose incoming message was initialised.
GrantMayUnlock(rec) == IF rec.msgin_length >= 0 THEN {TRUE, FALSE} ELSE {FALSE}

\* A homa_rpc_free that does not test the state of the record.
FreeNeverNoop(rec) == FALSE

\* The test under which homa_rpc_free returns at once (the caller's pointer is
\* not NULL here: it names the record the caller holds).
FreeIsNoop(rec) == rec.state = "DEAD"

\* A homa_rpc_free that puts the record on the dead list before it notifies the
\* grant scheduler.
DeadListAppended(dl, r) == Append(dl, r)

\* hsk->dead_rpcs when homa_grant_free_rpc is called: the record is not added to
\* it until the socket lock is held.
DeadListAtGrantFree(dl, r) == dl

\* The caller calls homa_rpc_free on the record it holds: the DEAD test, the state
\* change and the call of homa_grant_free_rpc.
FreeCheck(t) ==
    LET r == lv[t].r IN
    /\ pc[t] = "held"
    /\ IF FreeIsNoop(rpc[r])
       THEN /\ freeDone' = freeDone \cup {r}
            /\ UNCHANGED <<rpc, bucketLock, pc, dead_rpcs>>
       ELSE /\ rpc' = [rpc EXCEPT ![r] = [@ EXCEPT !.state = "DEAD"]]
            /\ dead_rpcs' = DeadListAtGrantFree(dead_rpcs, r)
            /\ \E unlocks \in GrantMayUnlock(rpc[r]) :
                 IF unlocks
                 THEN Lock(rpc[r].bucket, 0) /\ SetPc(t, "free_grant")
                 ELSE UNCHANGED bucketLock /\ SetPc(t, "free_lock_sock")
            /\ UNCHANGED freeDone
    /\ UNCHANGED <<lent, alloc, anext, bucketRpcs, sockLock, shutdown,
                   protect_count, dead_skbs, next_outgoing_id, lv, assigned>>
    /\ UNCHANGED <<poolVars, prioVars>>

\* homa_grant_free_rpc takes the RPC lock again before it returns.
FreeGrantRelock(t) ==
    /\ pc[t] = "free_grant"
    /\ bucketLock[rpc[lv[t].r].bucket] = 0
    /\ Lock(rpc[lv[t].r].bucket, t)
    /\ SetPc(t, "free_lock_sock")
    /\ UNCHANGED <<lent, alloc, rpc, anext, bucketRpcs, sockLock, dead_rpcs, shutdown,
                   protect_count, dead_skbs, next_outgoing_id, lv, assigned, freeDone>>
    /\ UNCHANGED <<poolVars, prioVars>>

\* homa_sock_lock(rpc->hsk, "homa_rpc_free")
FreeLockSock(t) ==
    /\ pc[t] = "free_lock_sock"
    /\ sockLock = 0
    /\ sockLock' = t
    /\ SetPc(t, "free_unlink")
    /\ UNCHANGED <<lent, alloc, rpc, anext, bucketRpcs, bucketLock, dead_rpcs, shutdown,
                   protect_count, dead_skbs, next_outgoing_id, lv, assigned, freeDone>>
    /\ UNCHANGED <<poolVars, prioVars>>

\* The packet buffers homa_rpc_free adds to hsk->dead_skbs for a record.
DeadSkbsOf(rec) ==
    (IF rec.msgin_length >= 0 THEN rec.msgin_packets ELSE 0) + rec.num_skbs

\* A homa_rpc_free that leaves the record on its bucket list.
HlistDelForgotten(s, r) == s

\* __hlist_del(&rpc->hash_links)
HlistDel(s, r) == Remove(s, r)

\* A homa_rpc_free that leaves the waiter registered and the record on the ready
\* and buf lists.
KeepInterest(rec) == rec

\* __list_del_entry of ready_links and buf_links, and rpc->interest = NULL.
ClearInterest(rec) == [rec EXCEPT !.on_ready = FALSE, !.on_buf = FALSE, !.interest = NULL]

\* rpc->interest->reg_rpc = NULL and wake_up_process(rpc->interest->thread): the
\* struct homa_interest is a local of the waiting thread.
WakeInterest(l, i) ==
    IF i = NULL THEN l ELSE [l EXCEPT ![i] = [@ EXCEPT !.reg_rpc = NULL, !.woken = @ + 1]]

\* Everything homa_rpc_free does under the socket lock, up to its return.
FreeUnlink(t) ==
    LET r == lv[t].r
        b == rpc[r].bucket
    IN
    /\ pc[t] = "free_unlink"
    /\ bucketRpcs' = [bucketRpcs EXCEPT ![b] = HlistDel(@, r)]
    /\ anext' = ListDelRcu(anext, r)
    /\ dead_rpcs' = Append(dead_rpcs, r)
    /\ dead_skbs' = dead_skbs + DeadSkbsOf(rpc[r])
    /\ sockLock' = 0
    /\ SetPc(t, "held")
    /\ freeDone' = freeDone \cup {r}
    /\ rpc' = [rpc EXCEPT ![r] = ClearInterest(@)]
    /\ lv' = WakeInterest(lv, rpc[r].interest)
    /\ UNCHANGED <<lent, alloc, bucketLock, shutdown, protect_count, next_outgoing_id,
                   assigned>>
    /\ UNCHANGED <<poolVars, prioVars>>

\* ----------------------------------------------------- homa_rpc_new_server
\* A bucket scan that compares ids only.
ServerMatchIdOnly(rec, id, sport, saddr) == rec.id = id

\* The test homa_rpc_new_server and homa_find_server_rpc apply to a bucket entry.
ServerMatch(rec, id, sport, saddr) ==
    rec.id = id /\ rec.dport = sport /\ rec.peer = saddr

\* A record whose peer and port have not been filled in yet.
NewServerRpcNoPeer(id, sport, saddr, bpages) ==
    [NoRpc EXCEPT !.id = id, !.bucket = ServerBucket(id), !.state = "INCOMING",
                  !.magic = 1, !.msgin_length = 1, !.num_bpages = bpages]

\* The record homa_rpc_new_server builds; homa_message_in_init has set msgin.
NewServerRpc(id, sport, saddr, bpages) ==
    [NoRpc EXCEPT !.id = id, !.bucket = ServerBucket(id), !.state = "INCOMING",
                  !.peer = saddr, !.dport = sport, !.magic = 1,
                  !.msgin_length = 1, !.num_bpages = bpages]

\* homa_bucket_lock, the scan of the bucket and, when nothing matches, the
\* construction of a new record (all with the bucket lock held); pages is the set
\* of numbers of bpages that homa_message_in_init may obtain for the record.
NsScanWith(t, pages) ==
    /\ pc[t] = "idle"
    /\ \E id \in ServerIds, sport \in Ports, saddr \in Addrs :
        LET b == ServerBucket(id)
            Match(q) == ServerMatch(rpc[q], id, sport, saddr)
            found == FirstMatch(bucketRpcs[b], Match)
            args == [NoLocals EXCEPT !.op = "new_server", !.id = id, !.sport = sport,
                                     !.saddr = saddr]
        IN
        /\ bucketLock[b] = 0
        /\ IF found # NULL
           THEN /\ Lock(b, t)
                /\ SetPc(t, "held")
                /\ lv' = [lv EXCEPT ![t] = [args EXCEPT !.r = found, !.created = 0]]
                /\ UNCHANGED <<alloc, rpc, lent>>
           ELSE \E outcome \in {"ENOMEM", "EPEER", "EMSGIN", "ok"}, bpages \in pages :
                IF outcome = "ok"
                THEN /\ HaveSlot
                     /\ Lock(b, t)
                     /\ lent' = lent + bpages
                     /\ alloc' = [alloc EXCEPT ![FreshSlot] = "live"]
                     /\ rpc' = [rpc EXCEPT ![FreshSlot] =
                                   NewServerRpc(id, sport, saddr, bpages)]
                     /\ SetPc(t, "ns_lock_sock")
                     /\ lv' = [lv EXCEPT ![t] = [args EXCEPT !.r = FreshSlot]]
                ELSE /\ bpages = 0
                     /\ SetPc(t, "ret")
                     /\ lv' = [lv EXCEPT ![t] = [NoLocals EXCEPT !.err = outcome]]
                     /\ UNCHANGED <<alloc, rpc, bucketLock, lent>>
    /\ UNCHANGED <<anext, bucketRpcs, sockLock, dead_rpcs, shutdown, protect_count,
                   dead_skbs, next_outgoing_id, assigned, freeDone>>
    /\ UNCHANGED <<poolVars, prioVars>>

\* homa_rpc_new_server for a message that gets no bpages.
NsScan(t) == NsScanWith(t, Bpages)

\* homa_rpc_new_server for a message that may get bpages from the buffer pool.
NsScanPages(t) == NsScanWith(t, PoolPages)

\* homa_sock_lock(hsk, "homa_rpc_new_server")
NsLockSock(t) ==
    /\ pc[t] = "ns_lock_sock"
    /\ sockLock = 0
    /\ sockLock' = t
    /\ SetPc(t, "ns_publish")
    /\ UNCHANGED <<lent, alloc, rpc, anext, bucketRpcs, bucketLock, dead_rpcs, shutdown,
                   protect_count, dead_skbs, next_outgoing_id, lv, assigned, freeDone>>
    /\ UNCHANGED <<poolVars, prioVars>>

\* The shutdown check and the publication, up to the return; offset0 says whether
\* the first packet is at offset 0.
NsPublish(t) ==
    LET r == lv[t].r
        b == rpc[r].bucket
    IN
    /\ pc[t] = "ns_publish"
    /\ sockLock' = 0
    /\ IF PublishRefused
       THEN /\ Lock(b, 0)
            /\ alloc' = Kfree(alloc, r)
            /\ rpc' = [rpc EXCEPT ![r] = NoRpc]
            /\ SetPc(t, "ret")
            /\ lv' = [lv EXCEPT ![t] = [NoLocals EXCEPT !.err = "ESHUTDOWN"]]
            /\ UNCHANGED <<bucketRpcs, anext>>
       ELSE /\ bucketRpcs' = [bucketRpcs EXCEPT ![b] = <<r>> \o @]
            /\ anext' = ListAddTail(anext, r)
            /\ \E offset0 \in Offset0 :
                 rpc' = [rpc EXCEPT ![r] = [@ EXCEPT !.pkts_ready =
                                               offset0 /\ rpc[r].num_bpages > 0]]
            /\ SetPc(t, "held")
            /\ lv' = [lv EXCEPT ![t] = [@ EXCEPT !.created = 1]]
            /\ UNCHANGED <<alloc, bucketLock>>
    /\ UNCHANGED <<lent, dead_rpcs, shutdown, protect_count, dead_skbs, next_outgoing_id,
                   assigned, freeDone>>
    /\ UNCHANGED <<poolVars, prioVars>>

\* ------------------------------ homa_find_client_rpc / homa_find_server_rpc
\* The test homa_find_client_rpc applies to a bucket entry.
ClientMatch(rec, id) == rec.id = id

\* A lookup that returns NULL without homa_bucket_unlock.
FindMissKeepsLock(t) == t

\* The holder of the bucket lock when a lookup returns after a scan that found
\* nothing (0: the lookup has released it).
FindMissLock(t) == 0

\* A lookup: homa_bucket_lock, the scan, and the return (locked, or NULL unlocked).
FindReturn(t, args, b, found) ==
    /\ bucketLock[b] = 0
    /\ IF found # NULL
       THEN /\ Lock(b, t)
            /\ SetPc(t, "held")
            /\ lv' = [lv EXCEPT ![t] = [args EXCEPT !.r = found]]
       ELSE /\ Lock(b, FindMissLock(t))
            /\ SetPc(t, "ret")
            /\ lv' = [lv EXCEPT ![t] = [NoLocals EXCEPT !.err = "NULL"]]
    /\ UNCHANGED <<lent, alloc, rpc, anext, bucketRpcs, sockLock, dead_rpcs, shutdown,
                   protect_count, dead_skbs, next_outgoing_id, assigned, freeDone>>
    /\ UNCHANGED <<poolVars, prioVars>>

FindClient(t) ==
    /\ pc[t] = "idle"
    /\ \E id \in {2 * k : k \in 1..(MaxId \div 2)} :
        LET Match(q) == ClientMatch(rpc[q], id)
        IN FindReturn(t, [NoLocals EXCEPT !.op = "find_client", !.id = id],
                      ClientBucket(id), FirstMatch(bucketRpcs[ClientBucket(id)], Match))

FindServer(t) ==
    /\ pc[t] = "idle"
    /\ \E id \in ServerIds, sport \in Ports, saddr \in Addrs :
        LET Match(q) == ServerMatch(rpc[q], id, sport, saddr)
        IN FindReturn(t, [NoLocals EXCEPT !.op = "find_server", !.id = id,
                                          !.sport = sport, !.saddr = saddr],
                      ServerBucket(id), FirstMatch(bucketRpcs[ServerBucket(id)], Match))

\* The caller of new_* / find_* pins the record it holds: it sets RPC_CANT_REAP,
\* or starts a grant (grants_in_progress) or a transmission (msgout.active_xmits).
CallerHold(t) ==
    LET r == lv[t].r IN
    /\ pc[t] = "held"
    /\ rpc[r].state # "DEAD"
    /\ ~rpc[r].cant_reap /\ rpc[r].grants_in_progress = 0 /\ rpc[r].active_xmits = 0
    /\ \E which \in {"cant_reap", "grant", "xmit"} :
        rpc' = [rpc EXCEPT ![r] =
                  IF which = "cant_reap" THEN [@ EXCEPT !.cant_reap = TRUE]
                  ELSE IF which = "grant" THEN [@ EXCEPT !.grants_in_progress = 1]
                  ELSE [@ EXCEPT !.active_xmits = 1]]
    /\ UNCHANGED <<lent, alloc, anext, bucketRpcs, bucketLock, sockLock, dead_rpcs, shutdown,
                   protect_count, dead_skbs, next_outgoing_id, pc, lv, assigned, freeDone>>
    /\ UNCHANGED <<poolVars, prioVars>>

\* Whoever pinned record r lets go of it (atomic operations, no lock needed).
Unpin(r) ==
    /\ alloc[r] = "live"
    /\ rpc[r].cant_reap \/ rpc[r].grants_in_progress # 0 \/ rpc[r].active_xmits # 0
    /\ rpc' = [rpc EXCEPT ![r] = [@ EXCEPT !.cant_reap = FALSE, !.grants_in_progress = 0,
                                           !.active_xmits = 0]]
    /\ UNCHANGED <<lent, alloc, anext, bucketRpcs, bucketLock, sockLock, dead_rpcs, shutdown,
                   protect_count, dead_skbs, next_outgoing_id, pc, lv, assigned, freeDone>>
    /\ UNCHANGED <<poolVars, prioVars>>

\* ----------------------------------------------------------- homa_rpc_reap
\* A batch size that is not capped by BATCH_MAX.
BatchSizeUncapped(count) == count

\* batch_size for a batch that starts with count buffers still to free.
BatchSize(count) == IF count > BATCH_MAX THEN BATCH_MAX ELSE count

\* A skip test that forgets msgout.active_xmits.
CantReapNoXmits(rec) == rec.cant_reap \/ rec.grants_in_progress # 0

\* The test under which the walk of the dead list skips a record.
CantReap(rec) ==
    rec.cant_reap \/ rec.grants_in_progress # 0 \/ rec.active_xmits # 0

\* A batch that does not look at hsk->protect_count.
ReapNeverDisabled == FALSE

\* Does a batch give up as soon as it holds the socket lock?
ReapDisabled == protect_count # 0

\* A walk that collects no tx buffer.
TakeTxNone(rec, skbs, batch_size) == 0

\* Tx buffers the inner loop takes from a record when the batch already holds skbs.
TakeTx(rec, skbs, batch_size) ==
    IF rec.msgout_length < 0 \/ rec.num_skbs = 0 THEN 0
    ELSE IF skbs >= batch_size THEN 1
    ELSE Min(rec.num_skbs, batch_size - skbs)

\* The walk of the dead list (list_for_each_entry_rcu up to the label release).
\* dl is the list as it was when the walk began, k the position of the walk and
\* st what the walk has done so far: the records (rp), the dead list (dead), the
\* records and the number of tx buffers collected (rpcs, skbs) and rx_frees (rx).
RECURSIVE ReapWalk(_, _, _, _)
ReapWalk(dl, k, batch_size, st) ==
    IF k > Len(dl) THEN st
    ELSE LET r == dl[k]
             rec == st.rp[r]
             take == TakeTx(rec, st.skbs, batch_size)
             rec1 == [rec EXCEPT !.magic = 0, !.num_skbs = @ - take]
             rx == IF rec.msgin_length >= 0 THEN rec.msgin_packets ELSE 0
             rec2 == [rec1 EXCEPT !.msgin_packets = @ - rx]
             st1 == [st EXCEPT !.rp = [@ EXCEPT ![r] = rec1], !.skbs = @ + take]
             st2 == [st EXCEPT !.rp = [@ EXCEPT ![r] = rec2], !.skbs = @ + take,
                               !.rx = @ + rx, !.rpcs = Append(@, r),
                               !.dead = Remove(@, r)]
         IN IF CantReap(rec) THEN ReapWalk(dl, k + 1, batch_size, st)
            ELSE IF take > 0 /\ st1.skbs >= batch_size THEN st1
            ELSE IF Len(st2.rpcs) >= batch_size THEN st2
            ELSE ReapWalk(dl, k + 1, batch_size, st2)

\* The locals of homa_rpc_reap when a batch begins: the head of the while loop.
BeginBatch(l) ==
    [l EXCEPT !.batch_size = BatchSize(l.count), !.count = @ - BatchSize(l.count),
              !.num_skbs = 0, !.rpcs = <<>>, !.i = 0]

\* A call of homa_rpc_reap(hsk, count) with count drawn from counts, up to the first
\* homa_sock_lock or, when count <= 0, to the return of the uninitialized result.
ReapStart(t, counts) ==
    /\ pc[t] = "idle"
    /\ \E count \in counts :
        LET l == [NoLocals EXCEPT !.op = "reap", !.count = count, !.budget = count]
        IN IF count > 0
           THEN /\ SetPc(t, "reap_lock_sock")
                /\ lv' = [lv EXCEPT ![t] = BeginBatch(l)]
           ELSE /\ SetPc(t, "ret")
                /\ \E junk \in UninitInts :
                     lv' = [lv EXCEPT ![t] = [NoLocals EXCEPT !.op = "reap",
                                                              !.result = junk]]
    /\ UNCHANGED <<lent, alloc, rpc, anext, bucketRpcs, bucketLock, sockLock, dead_rpcs, shutdown,
                   protect_count, dead_skbs, next_outgoing_id, assigned, freeDone>>
    /\ UNCHANGED <<poolVars, prioVars>>

\* homa_sock_lock(hsk, "homa_rpc_reap")
ReapLockSock(t) ==
    /\ pc[t] = "reap_lock_sock"
    /\ sockLock = 0
    /\ sockLock' = t
    /\ SetPc(t, "reap_batch")
    /\ UNCHANGED <<lent, alloc, rpc, anext, bucketRpcs, bucketLock, dead_rpcs, shutdown,
                   protect_count, dead_skbs, next_outgoing_id, lv, assigned, freeDone>>
    /\ UNCHANGED <<poolVars, prioVars>>

\* A reaper that keeps the socket lock while it releases the collected records.
ReapKeepsSockLock(t) == t

\* The holder of the socket lock once a batch has collected its records
\* (homa_sock_unlock at the label release; 0: nobody).
SockHolderAfterCollect(t) == 0

\* What one batch does while it holds the socket lock.
ReapBatch(t) ==
    LET l == lv[t]
        st == ReapWalk(dead_rpcs, 1, l.batch_size,
                       [rp |-> rpc, dead |-> dead_rpcs, rpcs |-> <<>>, skbs |-> 0,
                        rx |-> l.rx_frees])
        result == IF st.dead # <<>> /\ (st.skbs + Len(st.rpcs)) # 0 THEN 1 ELSE 0
    IN
    /\ pc[t] = "reap_batch"
    /\ sockLock' = IF ReapDisabled THEN 0 ELSE SockHolderAfterCollect(t)
    /\ IF ReapDisabled
       THEN /\ SetPc(t, "ret")
            /\ lv' = [lv EXCEPT ![t] = [NoLocals EXCEPT !.op = "reap", !.result = 0]]
            /\ UNCHANGED <<rpc, dead_rpcs, dead_skbs>>
       ELSE /\ rpc' = st.rp
            /\ dead_rpcs' = st.dead
            /\ dead_skbs' = dead_skbs - (st.skbs + st.rx)
            /\ SetPc(t, "reap_free")
            /\ lv' = [lv EXCEPT ![t] = [@ EXCEPT !.num_skbs = st.skbs, !.rx_frees = st.rx,
                                                 !.rpcs = st.rpcs, !.i = 0,
                                                 !.result = result,
                                                 !.total_skbs = @ + st.skbs]]
    /\ UNCHANGED <<lent, alloc, anext, bucketRpcs, bucketLock, shutdown, protect_count,
                   next_outgoing_id, assigned, freeDone>>
    /\ UNCHANGED <<poolVars, prioVars>>

\* A reaper that frees a collected record without locking it first.
ReapSkipsRpcLock == FALSE

\* Does homa_rpc_reap take the lock of a collected record before it frees it?
ReapLocksRpc == TRUE

\* homa_rpc_lock(rpc, "homa_rpc_reap") on the next collected record.
ReapBarrier(t) ==
    LET l == lv[t]
        r == l.rpcs[l.i + 1]
    IN
    /\ pc[t] = "reap_free"
    /\ l.i < Len(l.rpcs)
    /\ IF ReapLocksRpc
       THEN bucketLock[rpc[r].bucket] = 0 /\ Lock(rpc[r].bucket, t)
       ELSE UNCHANGED bucketLock
    /\ SetPc(t, "reap_kfree")
    /\ UNCHANGED <<lent, alloc, rpc, anext, bucketRpcs, sockLock, dead_rpcs, shutdown,
                   protect_count, dead_skbs, next_outgoing_id, lv, assigned, freeDone>>
    /\ UNCHANGED <<poolVars, prioVars>>

\* A reaper that marks the record it releases as an incoming RPC.
ReapedStateIncoming == "INCOMING"

\* rpc->state = 0: what homa_rpc_reap writes into the state of a record it releases.
ReapedState == "NONE"

\* homa_rpc_unlock(rpc), the release of the record's buffers and kfree(rpc).
ReapKfree(t) ==
    LET l == lv[t]
        r == l.rpcs[l.i + 1]
    IN
    /\ pc[t] = "reap_kfree"
    /\ IF ReapLocksRpc THEN Lock(rpc[r].bucket, 0) ELSE UNCHANGED bucketLock
    /\ lent' = lent - rpc[r].num_bpages
    /\ alloc' = Kfree(alloc, r)
    /\ rpc' = [rpc EXCEPT ![r] = [NoRpc EXCEPT !.state = ReapedState]]
    /\ anext' = [anext EXCEPT ![r] = NULL]
    /\ freeDone' = freeDone \ {r}
    /\ lv' = [lv EXCEPT ![t] = [@ EXCEPT !.i = @ + 1]]
    /\ SetPc(t, "reap_free")
    /\ UNCHANGED <<bucketRpcs, sockLock, dead_rpcs, shutdown, protect_count, dead_skbs,
                   next_outgoing_id, assigned>>
    /\ UNCHANGED <<poolVars, prioVars>>

\* The end of a batch: leave the loop and return result, or begin the next batch.
ReapNext(t) ==
    LET l == lv[t] IN
    /\ pc[t] = "reap_free"
    /\ l.i >= Len(l.rpcs)
    /\ IF l.result = 0 \/ l.count <= 0
       THEN /\ SetPc(t, "ret")
            /\ lv' = [lv EXCEPT ![t] = [NoLocals EXCEPT !.op = "reap",
                                                        !.result = l.result]]
       ELSE /\ SetPc(t, "reap_lock_sock")
            /\ lv' = [lv EXCEPT ![t] = BeginBatch(l)]
    /\ sockLock' = IF sockLock = t THEN 0 ELSE sockLock
    /\ UNCHANGED <<lent, alloc, rpc, anext, bucketRpcs, bucketLock, dead_rpcs, shutdown,
                   protect_count, dead_skbs, next_outgoing_id, assigned, freeDone>>
    /\ UNCHANGED <<poolVars, prioVars>>

\* ----------------------------------------------------- homa_rpc_log_active
\* The walker looks at a socket only if it has active RPCs and is not shut down.
LogStart(t) ==
    /\ pc[t] = "idle"
    /\ ~(anext[NULL] = NULL \/ shutdown)
    /\ SetPc(t, "log_protect")
    /\ lv' = [lv EXCEPT ![t] = [NoLocals EXCEPT !.op = "log_active"]]
    /\ UNCHANGED <<lent, alloc, rpc, anext, bucketRpcs, bucketLock, sockLock, dead_rpcs, shutdown,
                   protect_count, dead_skbs, next_outgoing_id, assigned, freeDone>>
    /\ UNCHANGED <<poolVars, prioVars>>

\* homa_protect_rpcs(hsk): under the socket lock, count a walker unless shut down.
LogProtect(t) ==
    /\ pc[t] = "log_protect"
    /\ sockLock = 0
    /\ IF shutdown
       THEN /\ SetPc(t, "idle")
            /\ lv' = [lv EXCEPT ![t] = NoLocals]
            /\ UNCHANGED protect_count
       ELSE /\ protect_count' = protect_count + 1
            /\ SetPc(t, "log_first")
            /\ UNCHANGED lv
    /\ UNCHANGED <<lent, alloc, rpc, anext, bucketRpcs, bucketLock, sockLock, dead_rpcs, shutdown,
                   dead_skbs, next_outgoing_id, assigned, freeDone>>
    /\ UNCHANGED <<poolVars, prioVars>>

\* What reading active_links.next of x yields: anything at all if x was freed.
NextActive(x) ==
    IF x # NULL /\ alloc[x] = "freed" THEN 0..MaxRpcs ELSE {anext[x]}

\* list_for_each_entry_rcu over hsk->active_rpcs: one step of the walk, and
\* homa_unprotect_rpcs when the walk is back at the list head.
LogWalk(t) ==
    /\ pc[t] \in {"log_first", "log_walk"}
    /\ IF pc[t] = "log_walk" /\ lv[t].cur = NULL
       THEN /\ protect_count' = protect_count - 1
            /\ SetPc(t, "idle")
            /\ lv' = [lv EXCEPT ![t] = NoLocals]
       ELSE /\ \E nxt \in NextActive(lv[t].cur) :
                 lv' = [lv EXCEPT ![t] = [@ EXCEPT !.cur = nxt]]
            /\ SetPc(t, "log_walk")
            /\ UNCHANGED protect_count
    /\ UNCHANGED <<lent, alloc, rpc, anext, bucketRpcs, bucketLock, sockLock, dead_rpcs, shutdown,
                   dead_skbs, next_outgoing_id, assigned, freeDone>>
    /\ UNCHANGED <<poolVars, prioVars>>

\* homa_sock_shutdown sets hsk->shutdown under the socket lock.
Shutdown ==
    /\ sockLock = 0
    /\ ~shutdown
    /\ shutdown' = TRUE
    /\ UNCHANGED <<lent, alloc, rpc, anext, bucketRpcs, bucketLock, sockLock, dead_rpcs,
                   protect_count, dead_skbs, next_outgoing_id, pc, lv, assigned, freeDone>>
    /\ UNCHANGED <<poolVars, prioVars>>

\* ------------------------------------------------------------ homa_pool_init
\* Does homa_pool_init refuse a region of length bytes as invalid?
PoolInitInvalid(aligned, length) ==
    ~aligned \/ (length \div BpageSize) < MIN_POOL_SIZE

\* An init that counts one bpage less than the region holds.
InitialFreeBpagesLessOne(num_bpages) == num_bpages - 1

\* free_bpages after a successful homa_pool_init: taking 2 of 100 bpages leaves 98.
InitialFreeBpages(num_bpages) == num_bpages

\* homa_pool_init(pool, homa, region, region_size) on a pool that is not set up.
PoolInit ==
    /\ pool.region = "NULL"
    /\ \A c \in Cores : ppc[c] = "idle"
    /\ \E aligned \in BOOLEAN, length \in 0..(MaxPages * BpageSize),
          kmalloc_fails \in BOOLEAN :
        LET n == length \div BpageSize
            args == [NoPool EXCEPT !.aligned = aligned, !.length = length]
        IN IF PoolInitInvalid(aligned, length)
           THEN /\ ~kmalloc_fails
                /\ pool' = [args EXCEPT !.init_ret = "EINVAL"]
                /\ UNCHANGED <<descriptors, cores>>
           ELSE IF kmalloc_fails
           THEN /\ pool' = [args EXCEPT !.init_ret = "ENOMEM"]
                /\ UNCHANGED <<descriptors, cores>>
           ELSE /\ pool' = [args EXCEPT !.region = "set", !.num_bpages = n,
                                        !.free_bpages = InitialFreeBpages(n),
                                        !.init_ret = "ok"]
                /\ descriptors' = [p \in Pages |-> NoBpage]
                /\ cores' = [c \in Cores |-> NoCore]
    /\ UNCHANGED <<ppc, plv, msgin>>
    /\ UNCHANGED <<rpcVars, prioVars>>

\* ------------------------------------------------------- homa_pool_get_pages
\* The larger of two numbers.
Max(a, b) == IF a >= b THEN a ELSE b

\* The bpages a scan considers: the used ones plus a quarter more (MIN_EXTRA at
\* least), never more than the pool has.
ScanLimit(num_bpages, free_bpages) ==
    LET used == num_bpages - free_bpages
    IN Min(num_bpages, used + Max(used \div 4, MIN_EXTRA))

\* A scan that takes an owned bpage whether or not the lease has run out.
UnusableIgnoringLease(d) ==
    \/ d.refs >= 2
    \/ d.refs = 1 /\ d.owner < 0

\* A candidate that the scan passes over: in use by someone other than an owner
\* whose lease has run out.
Unusable(d) ==
    \/ d.refs >= 2
    \/ d.refs = 1 /\ (d.owner < 0 \/ d.lease)

\* Where a core continues when homa_pool_get_pages returns to its caller.
AfterGetPages(caller) == IF caller = "al_full" THEN "al_full_done" ELSE "al_tail_done"

\* A request that is refused although free_bpages covers it exactly.
NotEnoughSpaceStrict(free_bpages, count) == free_bpages <= count

\* Does free_bpages fall short of the bpages asked for?
NotEnoughSpace(free_bpages, count) == free_bpages < count

\* homa_pool_get_pages: reserve count bpages in free_bpages, or fail at once.
GpReserve(c) ==
    /\ ppc[c] = "gp_reserve"
    /\ IF NotEnoughSpace(pool.free_bpages, plv[c].count)
       THEN /\ plv' = [plv EXCEPT ![c].ret = -1]
            /\ ppc' = [ppc EXCEPT ![c] = AfterGetPages(plv[c].caller)]
            /\ UNCHANGED pool
       ELSE /\ pool' = [pool EXCEPT !.free_bpages = @ - plv[c].count]
            /\ plv' = [plv EXCEPT ![c].dfree = @ - plv[c].count, ![c].limit = 0,
                                  ![c].pages = <<>>]
            /\ ppc' = [ppc EXCEPT ![c] = "gp_pick"]
    /\ UNCHANGED <<descriptors, cores, msgin>>
    /\ UNCHANGED <<rpcVars, prioVars>>

\* homa_pool_get_pages: take the next candidate of this core and look at it
\* without its lock.
GpPick(c) ==
    /\ ppc[c] = "gp_pick"
    /\ LET cur == cores[c].next_candidate
           limit == IF cur >= plv[c].limit /\ plv[c].limit = 0
                    THEN ScanLimit(pool.num_bpages, pool.free_bpages)
                    ELSE plv[c].limit
       IN IF cur >= limit
          THEN /\ cores' = [cores EXCEPT ![c].next_candidate = 0]
               /\ plv' = [plv EXCEPT ![c].limit = 0]
               /\ UNCHANGED ppc
          ELSE /\ cores' = [cores EXCEPT ![c].next_candidate = cur + 1]
               /\ plv' = [plv EXCEPT ![c].limit = limit, ![c].cur = cur]
               /\ ppc' = [ppc EXCEPT ![c] = IF Unusable(descriptors[cur])
                                            THEN "gp_pick" ELSE "gp_lock"]
    /\ UNCHANGED <<pool, descriptors, msgin>>
    /\ UNCHANGED <<rpcVars, prioVars>>

\* homa_pool_get_pages: try the candidate's lock; a held lock means skip it.
GpLock(c) ==
    /\ ppc[c] = "gp_lock"
    /\ LET cur == plv[c].cur
       IN IF descriptors[cur].lock # 0
          THEN /\ ppc' = [ppc EXCEPT ![c] = "gp_pick"]
               /\ UNCHANGED descriptors
          ELSE /\ descriptors' = [descriptors EXCEPT ![cur].lock = c]
               /\ ppc' = [ppc EXCEPT ![c] = "gp_claim"]
    /\ UNCHANGED <<pool, cores, plv, msgin>>
    /\ UNCHANGED <<rpcVars, prioVars>>

\* A claim that trusts what was seen before the lock was taken.
NoSecondLook(d) == FALSE

\* With the lock held the candidate is looked at again: it may have been taken
\* since it was picked.
UnusableNow(d) == Unusable(d)

\* A claim without ownership that leaves the old owner in place.
ClaimedKeepsOwner(d, c, set_owner) ==
    IF set_owner THEN [d EXCEPT !.refs = 2, !.owner = c, !.lease = TRUE, !.lock = 0]
    ELSE [d EXCEPT !.refs = 1, !.lock = 0]

\* The descriptor of a bpage that core c has just claimed.
Claimed(d, c, set_owner) ==
    IF set_owner THEN [d EXCEPT !.refs = 2, !.owner = c, !.lease = TRUE, !.lock = 0]
    ELSE [d EXCEPT !.refs = 1, !.owner = -1, !.lock = 0]

\* homa_pool_get_pages: with the lock held look again, then claim the bpage or
\* let it go.
GpClaim(c) ==
    /\ ppc[c] = "gp_claim"
    /\ LET cur == plv[c].cur
           d == descriptors[cur]
           new == Claimed(d, c, plv[c].set_owner)
           pages == Append(plv[c].pages, cur)
           stolen == IF d.owner >= 0 THEN 1 ELSE 0
       IN IF UnusableNow(d)
          THEN /\ descriptors' = [descriptors EXCEPT ![cur].lock = 0]
               /\ ppc' = [ppc EXCEPT ![c] = "gp_pick"]
               /\ UNCHANGED <<pool, plv>>
          ELSE /\ descriptors' = [descriptors EXCEPT ![cur] = new]
               /\ pool' = [pool EXCEPT !.free_bpages = @ + stolen]
               /\ plv' = [plv EXCEPT ![c].pages = pages, ![c].dfree = @ + stolen,
                                     ![c].drefs[cur] = @ + new.refs - d.refs,
                                     ![c].ret = 0]
               /\ ppc' = [ppc EXCEPT ![c] = IF Len(pages) = plv[c].count
                                            THEN AfterGetPages(plv[c].caller)
                                            ELSE "gp_pick"]
    /\ UNCHANGED <<cores, msgin>>
    /\ UNCHANGED <<rpcVars, prioVars>>

GetPages(c) == GpReserve(c) \/ GpPick(c) \/ GpLock(c) \/ GpClaim(c)

\* ------------------------------------------------- homa_pool_release_buffers
\* How many of the offsets lie in bpage p.
RECURSIVE RefsIn(_, _)
RefsIn(offsets, p) ==
    IF offsets = <<>> THEN 0
    ELSE (IF Head(offsets)[1] = p THEN 1 ELSE 0) + RefsIn(Tail(offsets), p)

\* A release that gives the references back but forgets free_bpages.
ReleaseBuffersKeepGauge(ds, free, offsets) ==
    <<[p \in Pages |-> [ds[p] EXCEPT !.refs = @ - RefsIn(offsets, p)]], free>>

\* A release that leaves out the first of the offsets.
ReleaseBuffersButFirst(ds, free, offsets) ==
    LET rest == IF offsets = <<>> THEN <<>> ELSE Tail(offsets)
    IN <<[p \in Pages |-> [ds[p] EXCEPT !.refs = @ - RefsIn(rest, p)]], free>>

\* The descriptors and free_bpages after the references behind offsets are given
\* back, as the pair <<descriptors, free_bpages>>.
RECURSIVE ReleaseBuffers(_, _, _)
ReleaseBuffers(ds, free, offsets) ==
    IF offsets = <<>> THEN <<ds, free>>
    ELSE LET p == Head(offsets)[1]
             refs == ds[p].refs - 1
         IN ReleaseBuffers([ds EXCEPT ![p].refs = refs],
                           IF refs = 0 /\ ds[p].owner = -1 THEN free + 1 ELSE free,
                           Tail(offsets))

\* homa_pool_release_buffers(pool, msgin.num_bpages, msgin.bpage_offsets) for
\* message m, by core c.
Release(c, m) ==
    /\ ppc[c] = "idle"
    /\ pool.region = "set"
    /\ msgin[m].offsets # <<>>
    /\ \A c2 \in Cores : ppc[c2] = "idle" \/ plv[c2].msg # m
    /\ LET after == ReleaseBuffers(descriptors, pool.free_bpages, msgin[m].offsets)
       IN /\ descriptors' = after[1]
          /\ pool' = [pool EXCEPT !.free_bpages = after[2]]
    /\ msgin' = [msgin EXCEPT ![m] = NoMsg]
    /\ UNCHANGED <<cores, ppc, plv>>
    /\ UNCHANGED <<rpcVars, prioVars>>

\* ------------------------------------------------------- homa_pool_allocate
\* homa_pool_allocate(rpc) for a message m of some length: work out the full
\* bpages and the tail, and ask for the full bpages first.
AlStartWith(c, m, lengths) ==
    /\ ppc[c] = "idle"
    /\ pool.region = "set"
    /\ msgin[m] = NoMsg
    /\ \A c2 \in Cores : ppc[c2] = "idle" \/ plv[c2].msg # m
    /\ \A m2 \in Msgs : m2 < m =>
          msgin[m2] # NoMsg \/ \E c2 \in Cores : ppc[c2] # "idle" /\ plv[c2].msg = m2
    /\ \E length \in lengths :
        LET full == length \div BpageSize
            tail == length % BpageSize
        IN /\ plv' = [plv EXCEPT ![c] = [NoPoolLocals EXCEPT !.msg = m, !.full = full,
                                             !.tail = tail, !.count = full,
                                             !.caller = "al_full"]]
           /\ ppc' = [ppc EXCEPT ![c] = IF full > 0 THEN "gp_reserve" ELSE "al_hint_lock"]
    /\ UNCHANGED <<pool, descriptors, cores, msgin>>
    /\ UNCHANGED <<rpcVars, prioVars>>

\* A message of any length up to MaxLen.
AlStart(c, m) == AlStartWith(c, m, 1..MaxLen)

\* A message that is only a tail, and a message of one full bpage.
AlStartTail(c, m) == AlStartWith(c, m, {1})
AlStartFull(c, m) == AlStartWith(c, m, {BpageSize})

\* Offsets that leave out the last of the bpages obtained.
FullOffsetsButLast(pages) == [i \in 1..(Len(pages) - 1) |-> <<pages[i], 0>>]

\* The offsets of whole bpages.
RECURSIVE FullOffsets(_)
FullOffsets(pages) ==
    IF pages = <<>> THEN <<>> ELSE <<<<Head(pages), 0>>>> \o FullOffsets(Tail(pages))

\* homa_pool_allocate: the full bpages were obtained, or were not.
AlFullDone(c) ==
    /\ ppc[c] = "al_full_done"
    /\ LET m == plv[c].msg
       IN IF plv[c].ret # 0
          THEN /\ ppc' = [ppc EXCEPT ![c] = "al_ret"]
               /\ UNCHANGED msgin
          ELSE /\ msgin' = [msgin EXCEPT ![m].offsets = FullOffsets(plv[c].pages)]
               /\ ppc' = [ppc EXCEPT ![c] = IF plv[c].tail = 0 THEN "al_ret"
                                            ELSE "al_hint_lock"]
    /\ UNCHANGED <<pool, descriptors, cores, plv>>
    /\ UNCHANGED <<rpcVars, prioVars>>

\* homa_pool_allocate: lock the descriptor of the bpage this core last carved from.
AlHintLock(c) ==
    /\ ppc[c] = "al_hint_lock"
    /\ descriptors[cores[c].page_hint].lock = 0
    /\ descriptors' = [descriptors EXCEPT ![cores[c].page_hint].lock = c]
    /\ ppc' = [ppc EXCEPT ![c] = "al_hint"]
    /\ UNCHANGED <<pool, cores, plv, msgin>>
    /\ UNCHANGED <<rpcVars, prioVars>>

\* An owner that starts again at the beginning of any bpage it has filled.
KeepsAnyFullPage(d) == TRUE

\* Does the owner keep a bpage that the tail does not fit in? Only one that holds
\* nothing but the owner's reference, which is then carved from its start again.
KeepsFullPage(d) == d.refs = 1

\* An owner that lets go of a bpage but keeps its reference to it.
GivenUpKeepsRef(d) == [d EXCEPT !.owner = -1, !.lock = 0]

\* The descriptor of a bpage whose owner lets go of it: no owner, and the owner's
\* reference dropped.
GivenUp(d) == [d EXCEPT !.owner = -1, !.refs = @ - 1, !.lock = 0]

\* homa_pool_allocate: with the lock held, carve the tail from the hinted bpage
\* if this core still owns it and the tail fits; otherwise go for a new bpage.
AlHint(c) ==
    /\ ppc[c] = "al_hint"
    /\ LET h == cores[c].page_hint
           d == descriptors[h]
           m == plv[c].msg
           tail == plv[c].tail
           fits == cores[c].allocated + tail <= BpageSize
           allocated == IF fits THEN cores[c].allocated ELSE 0
           new_page == [plv[c] EXCEPT !.count = 1, !.set_owner = TRUE, !.caller = "al_tail"]
       IN IF d.owner # c
          THEN /\ descriptors' = [descriptors EXCEPT ![h].lock = 0]
               /\ plv' = [plv EXCEPT ![c] = new_page]
               /\ ppc' = [ppc EXCEPT ![c] = "gp_reserve"]
               /\ UNCHANGED <<cores, msgin>>
          ELSE IF ~fits /\ ~KeepsFullPage(d)
          THEN /\ descriptors' = [descriptors EXCEPT ![h] = GivenUp(d)]
               /\ plv' = [plv EXCEPT ![c] = [new_page EXCEPT !.drefs[h] = @ - 1,
                                                             !.gave_up = h]]
               /\ ppc' = [ppc EXCEPT ![c] = "gp_reserve"]
               /\ UNCHANGED <<cores, msgin>>
          ELSE /\ descriptors' = [descriptors EXCEPT ![h].lease = TRUE, ![h].refs = @ + 1,
                                                     ![h].lock = 0]
               /\ msgin' = [msgin EXCEPT ![m].offsets = Append(@, <<h, allocated>>),
                                          ![m].tail = tail]
               /\ cores' = [cores EXCEPT ![c].allocated = allocated + tail]
               /\ plv' = [plv EXCEPT ![c].drefs[h] = @ + 1, ![c].ret = 0]
               /\ ppc' = [ppc EXCEPT ![c] = "al_ret"]
    /\ UNCHANGED pool
    /\ UNCHANGED <<rpcVars, prioVars>>

\* homa_pool_allocate: a new owned bpage for the tail was obtained, or was not, and
\* then the full bpages go back.
AlTailDone(c) ==
    /\ ppc[c] = "al_tail_done"
    /\ LET m == plv[c].msg
           page == plv[c].pages[1]
           after == ReleaseBuffers(descriptors, pool.free_bpages, msgin[m].offsets)
       IN IF plv[c].ret # 0
          THEN /\ descriptors' = after[1]
               /\ pool' = [pool EXCEPT !.free_bpages = after[2]]
               /\ msgin' = [msgin EXCEPT ![m].offsets = <<>>]
               /\ plv' = [plv EXCEPT ![c].dfree = @ + after[2] - pool.free_bpages,
                                     ![c].drefs = [p \in Pages |->
                                         @[p] - RefsIn(msgin[m].offsets, p)]]
               /\ UNCHANGED cores
          ELSE /\ cores' = [cores EXCEPT ![c].page_hint = page,
                                         ![c].allocated = plv[c].tail]
               /\ msgin' = [msgin EXCEPT ![m].offsets = Append(@, <<page, 0>>),
                                          ![m].tail = plv[c].tail]
               /\ UNCHANGED <<pool, descriptors, plv>>
    /\ ppc' = [ppc EXCEPT ![c] = "al_ret"]
    /\ UNCHANGED <<rpcVars, prioVars>>

\* homa_pool_allocate returns.
AlRet(c) ==
    /\ ppc[c] = "al_ret"
    /\ ppc' = [ppc EXCEPT ![c] = "idle"]
    /\ UNCHANGED msgin
    /\ plv' = [plv EXCEPT ![c] = NoPoolLocals]
    /\ UNCHANGED <<pool, descriptors, cores>>
    /\ UNCHANGED <<rpcVars, prioVars>>

AllocateSteps(c) ==
    AlFullDone(c) \/ AlHintLock(c) \/ AlHint(c) \/ AlTailDone(c) \/ AlRet(c)

Allocate(c) == (\E m \in Msgs : AlStart(c, m)) \/ AllocateSteps(c)

AllocateTail(c) == (\E m \in Msgs : AlStartTail(c, m)) \/ AllocateSteps(c)

AllocateFull(c) == (\E m \in Msgs : AlStartFull(c, m)) \/ AllocateSteps(c)

\* The lease of the owner of bpage p runs out (expiration <= get_cycles()).
LeaseExpires(p) ==
    /\ p < pool.num_bpages
    /\ descriptors[p].owner >= 0
    /\ descriptors[p].lease
    /\ descriptors' = [descriptors EXCEPT ![p].lease = FALSE]
    /\ UNCHANGED <<pool, cores, ppc, plv, msgin>>
    /\ UNCHANGED <<rpcVars, prioVars>>

\* ---------------------------------------------------------- specifications
NewClient(t) == NcAlloc(t) \/ NcLockBucket(t) \/ NcLockSock(t) \/ NcPublish(t)
NewServer(t) == NsScan(t) \/ NsLockSock(t) \/ NsPublish(t)
Free(t) == FreeCheck(t) \/ FreeGrantRelock(t) \/ FreeLockSock(t) \/ FreeUnlink(t)
Reap(t, counts) == ReapStart(t, counts) \/ ReapLockSock(t) \/ ReapBatch(t) \/ ReapBarrier(t)
              \/ ReapKfree(t) \/ ReapNext(t)
LogActive(t) == LogStart(t) \/ LogProtect(t) \/ LogWalk(t)

\* The lifecycle: two threads create, look up, free and reap RPCs while the socket
\* may be shut down.
Next ==
    \/ \E t \in Threads : NewClient(t)
    \/ \E t \in Threads : NewServer(t)
    \/ \E t \in Threads : FindClient(t)
    \/ \E t \in Threads : FindServer(t)
    \/ \E t \in Threads : Free(t)
    \/ \E t \in Threads : CallerUnlock(t)
    \/ \E t \in Threads : RetDone(t)
    \/ \E t \in Threads : Reap(t, 1..2)
    \/ Shutdown

Spec == Init /\ [][Next]_vars

\* Reaping of messages that hold packet buffers: thread 1 handles server RPCs
\* (creates, looks up, fills, pins, frees) while thread 2 reaps.
NextReap ==
    \/ NewServer(1)
    \/ FindServer(1)
    \/ Free(1)
    \/ CallerFill(1)
    \/ CallerHold(1)
    \/ CallerUnlock(1)
    \/ RetDone(1)
    \/ Reap(2, 1..MaxCount)
    \/ RetDone(2)
    \/ \E r \in Rpcs : Unpin(r)

SpecReap == Init /\ [][NextReap]_vars

\* Walkers of the active list: thread 2 also logs the active RPCs while thread 1
\* also reaps.
NextWalk ==
    \/ \E t \in Threads : NewServer(t)
    \/ \E t \in Threads : FindServer(t)
    \/ \E t \in Threads : Free(t)
    \/ \E t \in Threads : CallerUnlock(t)
    \/ \E t \in Threads : RetDone(t)
    \/ Reap(1, 1..2)
    \/ LogActive(2)
    \/ Shutdown

SpecWalk == Init /\ [][NextWalk]_vars

\* Teardown: thread 1 creates, fills, pins and frees server RPCs; thread 2 calls
\* homa_rpc_reap again and again.
NextTeardown ==
    \/ NewServer(1)
    \/ Free(1)
    \/ CallerFill(1)
    \/ CallerHold(1)
    \/ CallerUnlock(1)
    \/ RetDone(1)
    \/ Reap(2, {2})
    \/ RetDone(2)
    \/ \E r \in Rpcs : Unpin(r)

\* A function that has begun runs to its return: the locks are fair to their
\* waiters (strong fairness where a step has to win a lock); a caller that was
\* handed a locked record unlocks it, a pin is let go of, and the reaper is called
\* again whenever it has returned.
FairTeardown ==
    /\ SF_vars(NsLockSock(1))
    /\ WF_vars(NsPublish(1))
    /\ SF_vars(FreeGrantRelock(1))
    /\ SF_vars(FreeLockSock(1))
    /\ WF_vars(FreeUnlink(1))
    /\ WF_vars(CallerUnlock(1))
    /\ SF_vars(Reap(2, {2}))
    /\ WF_vars(RetDone(2))
    /\ \A r \in Rpcs : WF_vars(Unpin(r))

SpecTeardown == Init /\ [][NextTeardown]_vars /\ FairTeardown

\* Construction against shutdown, on a socket with a buffer pool: both threads
\* create RPCs, thread 1 also frees them and thread 2 also reaps.
NewServerPages(t) == NsScanPages(t) \/ NsLockSock(t) \/ NsPublish(t)

NextCtor ==
    \/ \E t \in Threads : NewClient(t)
    \/ \E t \in Threads : NewServerPages(t)
    \/ \E t \in Threads : CallerUnlock(t)
    \/ \E t \in Threads : RetDone(t)
    \/ Free(1)
    \/ Reap(2, {1})
    \/ Shutdown

SpecCtor == Init /\ [][NextCtor]_vars

\* The buffer pool of one socket, used from one core: set up once, then messages
\* get buffers and give them back while leases run out.
NextPool ==
    \/ PoolInit
    \/ GetPages(1)
    \/ Allocate(1)
    \/ \E m \in Msgs : Release(1, m)
    \/ \E p \in Pages : LeaseExpires(p)

SpecPool == Init /\ [][NextPool]_vars

\* The buffer pool used from two cores at once: core 1 gets buffers for messages
\* that are only a tail, core 2 for messages of one full bpage, and core 2 gives
\* buffers back.
NextPoolCores ==
    \/ PoolInit
    \/ \E c \in Cores : GetPages(c)
    \/ AllocateTail(1)
    \/ AllocateFull(2)
    \/ \E m \in Msgs : Release(2, m)
    \/ \E p \in Pages : LeaseExpires(p)

SpecPoolCores == Init /\ [][NextPoolCores]_vars

\* ------------------------------------------------------------------ claims
OnBucket(r) == \E b \in BucketIds : r \in SeqToSet(bucketRpcs[b])
OnDead(r) == r \in SeqToSet(dead_rpcs)
IsLookup(op) == op \in {"find_client", "find_server"}

\* C1: once a call of homa_rpc_free(rpc) has returned, no lookup that starts
\* afterwards returns that record.
C1_NoFindAfterFree ==
    [][\A t \in Threads :
         (pc[t] = "idle" /\ pc'[t] = "held" /\ IsLookup(lv'[t].op))
             => lv'[t].r \notin freeDone]_vars

\* No function that creates, frees or reaps is in progress.
Quiescent == \A t \in Threads : pc[t] \in {"idle", "held", "ret"}

\* C2: at every quiescent moment every allocated record is on its bucket list iff
\* it is on the active list iff it is not DEAD, and a DEAD record is on the dead
\* list and on neither of the other two.
C2_ListsAgreeWithState ==
    Quiescent =>
        \A r \in Rpcs : alloc[r] = "live" =>
            /\ OnBucket(r) <=> OnActive(anext, r)
            /\ OnActive(anext, r) <=> rpc[r].state # "DEAD"
            /\ rpc[r].state = "DEAD" =>
                   OnDead(r) /\ ~OnBucket(r) /\ ~OnActive(anext, r)
            /\ OnBucket(r) => r \in SeqToSet(bucketRpcs[rpc[r].bucket])

C2_Witness ==
    /\ Quiescent
    /\ \E r, q \in Rpcs : /\ alloc[r] = "live" /\ rpc[r].state = "DEAD" /\ OnDead(r)
                          /\ alloc[q] = "live" /\ rpc[q].state # "DEAD" /\ OnBucket(q)

\* Thread t holds the bucket lock of the record its pointer names.
HoldsLockedRpc(t) == pc[t] \in {"held", "free_lock_sock", "free_unlink"}

\* C3: no record is freed while a thread that was handed it still holds its bucket
\* lock, and the reaper holds the lock of a record at the moment before it unlocks
\* and frees it.
C3_NoFreeUnderBucketLock ==
    /\ \A t \in Threads : HoldsLockedRpc(t) => alloc[lv[t].r] = "live"
    /\ \A t \in Threads : pc[t] = "reap_kfree" =>
           /\ alloc[lv[t].rpcs[lv[t].i + 1]] = "live"
           /\ bucketLock[rpc[lv[t].rpcs[lv[t].i + 1]].bucket] = t

\* A reaper waits for the lock of a dead record that its killer still holds.
C3_Witness ==
    \E t, u \in Threads :
        /\ pc[t] = "held" /\ rpc[lv[t].r].state = "DEAD"
        /\ pc[u] = "reap_free" /\ lv[u].i < Len(lv[u].rpcs)
        /\ lv[u].rpcs[lv[u].i + 1] = lv[t].r

\* C4: a dead record that is pinned (RPC_CANT_REAP, grants_in_progress or
\* active_xmits) stays on the dead list, allocated, with all its packets.
C4_PinnedNotReaped ==
    [][\A r \in Rpcs :
         (/\ alloc[r] = "live" /\ OnDead(r)
          /\ (rpc[r].cant_reap \/ rpc[r].grants_in_progress # 0
                \/ rpc[r].active_xmits # 0))
         => /\ alloc'[r] = "live"
            /\ r \in SeqToSet(dead_rpcs')
            /\ rpc'[r].num_skbs = rpc[r].num_skbs
            /\ rpc'[r].msgin_packets = rpc[r].msgin_packets
            /\ rpc'[r].magic = rpc[r].magic]_vars

\* A batch has collected a record while a pinned record with packets stays behind.
C4_Witness ==
    \E t \in Threads :
        /\ pc[t] = "reap_free" /\ Len(lv[t].rpcs) > 0
        /\ \E r \in Rpcs : OnDead(r) /\ rpc[r].active_xmits # 0 /\ rpc[r].num_skbs > 0

\* C5: the ids handed out by new_client are even, at least 2 and strictly
\* increasing in the order of the fetch-add, so no two calls share an id.
C5_ClientIds ==
    /\ \A k \in 1..Len(assigned) : assigned[k] % 2 = 0 /\ assigned[k] >= 2
    /\ \A k, m \in 1..Len(assigned) : k < m => assigned[k] < assigned[m]
    /\ \A r, q \in Rpcs :
           (/\ r # q /\ alloc[r] = "live" /\ alloc[q] = "live"
            /\ rpc[r].bucket[1] = "c" /\ rpc[q].bucket[1] = "c")
           => rpc[r].id # rpc[q].id

\* Two calls of new_client are in progress at once, each with its id.
C5_Witness ==
    /\ Len(assigned) = 2
    /\ pc[1] \in {"nc_lock_bucket", "nc_lock_sock", "nc_publish"}
    /\ pc[2] \in {"nc_lock_bucket", "nc_lock_sock", "nc_publish"}

\* C6: a publication that finds the socket shut down returns ESHUTDOWN, leaves
\* the bucket, active and dead lists as they were, frees the new record and
\* leaves no lock held.
C6_ShutdownRefusesPublish ==
    [][\A t \in Threads :
         (pc[t] \in {"nc_publish", "ns_publish"} /\ shutdown /\ pc'[t] # pc[t])
         => /\ pc'[t] = "ret" /\ lv'[t].err = "ESHUTDOWN"
            /\ bucketRpcs' = bucketRpcs
            /\ ActiveSeq(anext') = ActiveSeq(anext)
            /\ dead_rpcs' = dead_rpcs
            /\ alloc'[lv[t].r] = "freed"
            /\ sockLock' # t
            /\ \A b \in BucketIds : bucketLock'[b] # t]_vars

C6_Witness ==
    \E t \in Threads : pc[t] = "ret" /\ lv[t].err = "ESHUTDOWN" /\ shutdown

\* C7: a server bucket never holds two records with the same (id, dport, peer),
\* and homa_rpc_new_server returns a record that carries the key it was asked for,
\* whether it created the record or found it.
C7_OneServerRpcPerKey ==
    /\ \A b \in BucketIds : \A k, m \in 1..Len(bucketRpcs[b]) :
           (b[1] = "s" /\ k < m) =>
               \/ rpc[bucketRpcs[b][k]].id # rpc[bucketRpcs[b][m]].id
               \/ rpc[bucketRpcs[b][k]].dport # rpc[bucketRpcs[b][m]].dport
               \/ rpc[bucketRpcs[b][k]].peer # rpc[bucketRpcs[b][m]].peer
    /\ \A t \in Threads :
           (pc[t] = "held" /\ lv[t].op = "new_server") =>
               /\ lv[t].created \in {0, 1}
               /\ rpc[lv[t].r].id = lv[t].id
               /\ rpc[lv[t].r].dport = lv[t].sport
               /\ rpc[lv[t].r].peer = lv[t].saddr
               /\ rpc[lv[t].r].state # "DEAD" =>
                      lv[t].r \in SeqToSet(bucketRpcs[ServerBucket(lv[t].id)])
    /\ \A t, u \in Threads :
           (/\ t # u /\ pc[t] = "held" /\ pc[u] = "held"
            /\ lv[t].created = 1 /\ lv[u].created = 1) => lv[t].r # lv[u].r

\* A call found the record that an earlier call created, next to another record.
C7_Witness ==
    \E t \in Threads :
        /\ pc[t] = "held" /\ lv[t].op = "new_server" /\ lv[t].created = 0
        /\ Len(bucketRpcs[rpc[lv[t].r].bucket]) = 2

\* C8: a thread that was handed a record holds that record's bucket lock and no
\* other lock; a thread that was handed an error or NULL holds no lock.
C8_LocksOnReturn ==
    \A t \in Threads :
        /\ pc[t] = "held" =>
               /\ HeldBuckets(t) = {rpc[lv[t].r].bucket}
               /\ sockLock # t
        /\ pc[t] = "ret" => HeldBuckets(t) = {} /\ sockLock # t

C8_Witness ==
    /\ pc[1] = "held" /\ lv[1].op = "find_server"
    /\ pc[2] = "ret" /\ lv[2].err = "NULL"

\* C9: a batch that finds protect_count > 0 changes no record and no list and
\* returns 0 at once, and a walker that holds protection never stands on a record
\* that has been freed.
C9_ProtectStopsReap ==
    /\ [](\A t \in Threads :
            (pc[t] = "log_walk" /\ lv[t].cur # NULL) => alloc[lv[t].cur] = "live")
    /\ [][\A t \in Threads :
            (pc[t] = "reap_batch" /\ protect_count > 0 /\ pc'[t] # pc[t])
            => /\ pc'[t] = "ret" /\ lv'[t].result = 0
               /\ dead_rpcs' = dead_rpcs /\ rpc' = rpc /\ alloc' = alloc
               /\ dead_skbs' = dead_skbs]_vars

\* A reap call has returned while the walker stands on a record that is dead.
C9_Witness ==
    \E t, u \in Threads :
        /\ pc[t] = "log_walk" /\ lv[t].cur # NULL /\ OnDead(lv[t].cur)
        /\ pc[u] = "ret" /\ lv[u].op = "reap"

\* C10: a call with budget N takes at most N tx buffers in all, and one batch
\* takes at most min(budget left when it began, BATCH_MAX) tx buffers and at most
\* as many records.
C10_ReapBudget ==
    \A t \in Threads :
        pc[t] \in {"reap_lock_sock", "reap_batch", "reap_free", "reap_kfree"} =>
            /\ lv[t].total_skbs <= lv[t].budget
            /\ lv[t].num_skbs <= Min(lv[t].count + lv[t].batch_size, BATCH_MAX)
            /\ Len(lv[t].rpcs) <= Min(lv[t].count + lv[t].batch_size, BATCH_MAX)

\* A batch was cut off at BATCH_MAX buffers in a call whose budget is larger.
C10_Witness ==
    \E t \in Threads :
        /\ pc[t] = "reap_free" /\ lv[t].budget > BATCH_MAX
        /\ lv[t].num_skbs = BATCH_MAX /\ dead_skbs > 0

\* C11: a call of homa_rpc_reap that returns nonzero leaves a dead record that can
\* be reaped; when the dead list is empty or holds only blocked records it returns 0.
C11_ReapResultMeansWork ==
    [][\A t \in Threads :
         (pc[t] = "reap_free" /\ pc'[t] = "ret" /\ lv'[t].result # 0)
             => \E r \in SeqToSet(dead_rpcs') : ~CantReap(rpc'[r])]_vars

\* C12: homa_rpc_free on a record that is already DEAD does not start a teardown
\* (no lock is taken or released, homa_grant_free_rpc is not called) and changes no
\* list, no counter and no field of a record or of the socket.
C12_FreeOfDeadIsNoop ==
    [][/\ \A t \in Threads :
            (pc[t] = "held" /\ rpc[lv[t].r].state = "DEAD") => pc'[t] \in {"held", "idle"}
       /\ (pc' = pc /\ lv' = lv /\ freeDone' # freeDone) =>
            UNCHANGED <<alloc, rpc, anext, bucketRpcs, bucketLock, sockLock, dead_rpcs,
                        shutdown, protect_count, dead_skbs, next_outgoing_id>>]_vars

\* A thread has called homa_rpc_free on a record it found while the thread that
\* killed the record is still inside homa_grant_free_rpc.
C12_Witness ==
    \E t, u \in Threads :
        /\ pc[t] = "held" /\ lv[t].r \in freeDone /\ IsLookup(lv[t].op)
        /\ pc[u] = "free_grant" /\ lv[u].r = lv[t].r

\* C13: a record whose state is DEAD never gets the state OUTGOING, INCOMING or
\* IN_SERVICE again, and once it is off its bucket list or off the active list it
\* never comes back to it; the same holds after homa_rpc_reap has released it.
C13_DeadIsForever ==
    [][\A r \in Rpcs :
         (rpc[r].state = "DEAD" \/ alloc[r] = "freed") =>
            /\ rpc'[r].state \in {"DEAD", "NONE"}
            /\ alloc[r] = "freed" => alloc'[r] = "freed"
            /\ ~OnBucket(r) => ~(\E b \in BucketIds : r \in SeqToSet(bucketRpcs'[b]))
            /\ ~OnActive(anext, r) => ~OnActive(anext', r)]_vars

\* A dead record waits on the dead list while a new record with the same key is
\* on the bucket list.
C13_Witness ==
    \E q, p \in Rpcs :
        /\ rpc[q].state = "DEAD" /\ OnDead(q)
        /\ rpc[p].state # "DEAD" /\ OnBucket(p)
        /\ ServerMatch(rpc[p], rpc[q].id, rpc[q].dport, rpc[q].peer)

\* The thread that holds the lock thread t is waiting for (0: t waits for no lock,
\* or the lock is free).
WaitsFor(t) ==
    IF pc[t] \in {"nc_lock_sock", "ns_lock_sock", "free_lock_sock", "reap_lock_sock",
                  "log_protect"}
    THEN sockLock
    ELSE IF pc[t] \in {"nc_lock_bucket", "free_grant"}
    THEN bucketLock[rpc[lv[t].r].bucket]
    ELSE IF pc[t] = "reap_free" /\ lv[t].i < Len(lv[t].rpcs)
    THEN bucketLock[rpc[lv[t].rpcs[lv[t].i + 1]].bucket]
    ELSE 0

\* C14: no thread takes a bucket lock while it holds the socket lock, and no
\* threads wait for each other's locks (nor a thread for a lock it holds itself).
C14_LockOrder ==
    /\ [][\A t \in Threads : \A b \in BucketIds :
            (bucketLock[b] # t /\ bucketLock'[b] = t) => (sockLock # t /\ sockLock' # t)]_vars
    /\ [](\A t, u \in Threads : WaitsFor(t) = u => WaitsFor(u) # t)

\* A thread that holds a bucket lock waits for the socket lock, which a reaper holds.
C14_Witness ==
    \E t, u \in Threads :
        /\ pc[t] \in {"nc_lock_sock", "ns_lock_sock", "free_lock_sock"}
        /\ sockLock = u /\ pc[u] = "reap_batch"

\* The reaper has returned 0, the dead list is empty and no dead record is left.
Drained ==
    /\ pc[2] = "ret" /\ lv[2].op = "reap" /\ lv[2].result = 0
    /\ dead_rpcs = <<>>
    /\ \A r \in Rpcs : alloc[r] = "live" => rpc[r].state # "DEAD"

\* C15: with no walker, pins that are let go of and callers that unlock, repeated
\* calls of homa_rpc_reap always come back to a return of 0 with the dead list
\* empty and every dead record released, and a record is released only after all
\* its packet buffers were taken.
C15_TeardownCompletes ==
    /\ []<>Drained
    /\ [](\A t \in Threads : pc[t] \in {"reap_free", "reap_kfree"} =>
            \A k \in 1..Len(lv[t].rpcs) :
                alloc[lv[t].rpcs[k]] = "live" =>
                    /\ rpc[lv[t].rpcs[k]].num_skbs = 0
                    /\ rpc[lv[t].rpcs[k]].msgin_packets = 0)

\* The reaper is about to release a record whose buffers it took in this call, and
\* the dead list is empty.
C15_Witness ==
    /\ pc[2] = "reap_kfree" /\ lv[2].total_skbs > 0 /\ dead_rpcs = <<>>
    /\ \E r \in Rpcs : alloc[r] = "freed"

\* The bpages held by the records that exist.
RECURSIVE PagesOfLive(_, _, _)
PagesOfLive(al, rp, n) ==
    IF n = 0 THEN 0
    ELSE (IF al[n] = "live" THEN rp[n].num_bpages ELSE 0) + PagesOfLive(al, rp, n - 1)

CtorErrors == {"ENOMEM", "EPEER", "EMSGIN", "ESHUTDOWN"}

\* C16: when homa_rpc_new_client or homa_rpc_new_server returns an error, the
\* caller holds no lock, the record under construction is freed and on no list,
\* and every bpage that is lent out is held by a record that exists.
C16_CtorErrorUnwinds ==
    [][\A t \in Threads :
         (pc[t] # "ret" /\ pc'[t] = "ret" /\ lv'[t].err \in CtorErrors) =>
            /\ sockLock' # t
            /\ \A b \in BucketIds : bucketLock'[b] # t
            /\ lv[t].r # NULL =>
                  /\ alloc'[lv[t].r] = "freed"
                  /\ \A b \in BucketIds : lv[t].r \notin SeqToSet(bucketRpcs'[b])
                  /\ ~OnActive(anext', lv[t].r)
                  /\ lv[t].r \notin SeqToSet(dead_rpcs')
            /\ lent' = PagesOfLive(alloc', rpc', MaxRpcs)]_vars

\* C17: homa_pool_init returns EINVAL exactly when the region is not aligned or
\* is shorter than 2 bpages: a region of 2*bpage_size - 1 bytes is refused and an
\* aligned region of 2 bpages or more is not refused as invalid.
C17_InitInvalidArgument ==
    [][pool.region = "NULL" /\ pool' # pool =>
          (pool'.init_ret = "EINVAL" <=>
              (~pool'.aligned \/ pool'.length < 2 * BpageSize))]_vars

\* C18: after a successful homa_pool_init on a region of k bpages, num_bpages is
\* k, every descriptor but the last has refs = 0 and owner = -1, and free_bpages
\* is num_bpages - 1.
C18_InitState ==
    [][pool.region = "NULL" /\ pool'.region = "set" =>
          /\ pool'.num_bpages = pool'.length \div BpageSize
          /\ \A p \in Pages : p < pool'.num_bpages - 1 =>
                descriptors'[p].refs = 0 /\ descriptors'[p].owner = -1
          /\ pool'.free_bpages = pool'.num_bpages - 1]_vars

\* Has homa_pool_get_pages just returned to core c's homa_pool_allocate?
GetPagesReturned(c) == ppc[c] \in {"al_full_done", "al_tail_done"}

\* Are the entries of a sequence all different?
Distinct(seq) == \A i, j \in 1..Len(seq) : i # j => seq[i] # seq[j]

\* C19: homa_pool_get_pages returns -1 when free_bpages < count and then leaves
\* free_bpages and every descriptor as they were; with free_bpages = count (or
\* more) it does not fail, and when it returns it returns count bpages, all
\* different.
C19_GetPagesNeedsFreeBpages ==
    [][\A c \in Cores :
          /\ ppc[c] = "gp_reserve" /\ ppc'[c] # "gp_reserve" =>
                IF pool.free_bpages < plv[c].count
                THEN /\ GetPagesReturned(c)' /\ plv'[c].ret = -1
                     /\ pool' = pool /\ descriptors' = descriptors
                ELSE ppc'[c] = "gp_pick"
          /\ ppc[c] \in {"gp_pick", "gp_lock", "gp_claim"} /\ GetPagesReturned(c)' =>
                /\ plv'[c].ret = 0
                /\ Len(plv'[c].pages) = plv'[c].count
                /\ Distinct(plv'[c].pages)
                /\ \A i \in 1..Len(plv'[c].pages) : plv'[c].pages[i] < pool.num_bpages]_vars

\* The full bpages were obtained when free_bpages was exactly their number (2 or
\* more), and the request for the tail's bpage was then refused.
C19_Witness ==
    /\ ppc[1] = "al_tail_done" /\ plv[1].ret = -1
    /\ plv[1].full >= 2 /\ Len(msgin[plv[1].msg].offsets) = plv[1].full
    /\ plv[1].dfree = -plv[1].full
    /\ pool.free_bpages = 0

Released == {m \in Msgs : msgin[m].offsets # <<>> /\ msgin'[m].offsets = <<>>}

\* C21: homa_pool_release_buffers lowers refs by exactly one per released offset
\* in the bpage that holds the offset and touches no other descriptor, and
\* free_bpages goes up by one exactly for each bpage whose refs reaches 0 with
\* owner = -1.
C21_ReleaseDecrementsRefs ==
    [][\A m \in Released :
          /\ \A p \in Pages :
                descriptors'[p] = [descriptors[p] EXCEPT
                                      !.refs = @ - RefsIn(msgin[m].offsets, p)]
          /\ pool'.free_bpages = pool.free_bpages + Cardinality(
                {p \in Pages : /\ RefsIn(msgin[m].offsets, p) > 0
                               /\ descriptors'[p].refs = 0
                               /\ descriptors'[p].owner = -1})
          /\ msgin'[m].offsets = <<>>]_vars

\* Message 1 has given back its bpages while message 2, which got its bpages
\* later, shares an owned bpage that still has references; a bpage is free again.
C21_Witness ==
    /\ ppc[1] = "idle"
    /\ msgin[1] = NoMsg /\ msgin[2].offsets # <<>>
    /\ \E p \in Pages : descriptors[p].refs = 2 /\ descriptors[p].owner = 1
                        /\ RefsIn(msgin[2].offsets, p) = 1
    /\ \E p \in Pages : p < pool.num_bpages /\ p < cores[1].next_candidate
                        /\ descriptors[p].refs = 0
    /\ pool.free_bpages = Cardinality({p \in Pages : p < pool.num_bpages
                                                    /\ descriptors[p].refs = 0})

\* Every successful homa_pool_allocate has been matched by a release of its
\* offsets and no pool function is running.
AllReleased ==
    /\ pool.region = "set"
    /\ \A c \in Cores : ppc[c] = "idle"
    /\ \A m \in Msgs : msgin[m] = NoMsg

\* C22: release_buffers is the inverse of allocate on refs: once every
\* successful allocate on a freshly initialised pool has been followed by the
\* release of its offsets, every descriptor has refs = 0.
C22_ReleaseInvertsAllocate ==
    AllReleased => \A p \in Pages : descriptors[p].refs = 0

\* C22 (amended): once every successful allocate has been followed by the release
\* of its offsets, a bpage that still has an owner keeps exactly the owner's
\* reference and every other descriptor has refs = 0.
C22_ReleaseLeavesOwnerRefs ==
    AllReleased =>
        \A p \in Pages : descriptors[p].refs = IF descriptors[p].owner >= 0 THEN 1 ELSE 0

\* All messages have been released, one bpage is still owned by the core that
\* carved a tail from it, and full bpages that were taken are free again.
C22_Witness ==
    /\ AllReleased
    /\ \E p \in Pages : descriptors[p].owner = 1 /\ descriptors[p].refs = 1
    /\ cores[1].next_candidate >= 3
    /\ pool.free_bpages = pool.num_bpages - 1

\* The least number of bpages that hold a message of full bpages and a tail.
NumBpages(full, tail) == full + (IF tail > 0 THEN 1 ELSE 0)

\* C23: a successful homa_pool_allocate for a message of length L leaves
\* msgin.num_bpages = ceil(L / bpage_size); the first floor(L / bpage_size)
\* offsets are the starts of different bpages taken without an owner, and when
\* L mod bpage_size > 0 the last offset lies in a bpage owned by the calling
\* core, which is the core's page_hint, with allocated advanced by the tail.
C23_AllocateLayout ==
    \A c \in Cores :
        ppc[c] = "al_ret" /\ plv[c].ret = 0 =>
            LET offsets == msgin[plv[c].msg].offsets
                full == plv[c].full
                tail == plv[c].tail
                last == offsets[Len(offsets)]
            IN /\ Len(offsets) = NumBpages(full, tail)
               /\ \A i \in 1..full :
                     /\ offsets[i][2] = 0
                     /\ offsets[i][1] < pool.num_bpages
                     /\ descriptors[offsets[i][1]].owner = -1
                     /\ descriptors[offsets[i][1]].refs = 1
               /\ \A i, j \in 1..Len(offsets) : i # j => offsets[i][1] # offsets[j][1]
               /\ tail > 0 =>
                     /\ descriptors[last[1]].owner = c
                     /\ descriptors[last[1]].refs >= 2
                     /\ cores[c].page_hint = last[1]
                     /\ cores[c].allocated = last[2] + tail
                     /\ cores[c].allocated <= BpageSize

\* A message of two full bpages and a tail has got its three bpages, the tail
\* in a bpage that the core owned already and had carved from.
C23_Witness ==
    /\ ppc[1] = "al_ret" /\ plv[1].ret = 0
    /\ plv[1].full = 2 /\ plv[1].tail = 1
    /\ Len(msgin[plv[1].msg].offsets) = 3
    /\ msgin[plv[1].msg].offsets[3][2] > 0

\* No pool function is running on a pool that has been set up.
PoolQuiescent == pool.region = "set" /\ \A c \in Cores : ppc[c] = "idle"

\* The bpages of the pool that nobody holds and nobody owns, the last bpage left
\* out or not.
FreeOf(pages) ==
    {p \in pages : p < pool.num_bpages /\ descriptors[p].refs = 0 /\ descriptors[p].owner = -1}

Claims(c) == ppc[c] = "gp_claim" /\ Len(plv'[c].pages) = Len(plv[c].pages) + 1

\* The references that messages hold on bpage p.
RECURSIVE MsgRefs(_, _)
MsgRefs(ms, p) ==
    IF ms = {} THEN 0
    ELSE LET m == CHOOSE x \in ms : TRUE
         IN RefsIn(msgin[m].offsets, p) + MsgRefs(ms \ {m}, p)

\* The bpages that homa_pool_get_pages has handed or is handing to core c and
\* that are not yet in a message's bpage_offsets.
InFlight(c) ==
    IF ppc[c] \in {"gp_pick", "gp_lock", "gp_claim", "al_full_done", "al_tail_done"}
    THEN SeqToSet(plv[c].pages) ELSE {}

\* C25: no bpage with refs # 0 is handed out: in every interleaving of get_pages,
\* allocate and release_buffers on several cores, each bpage returned by
\* get_pages had refs = 0 when it was claimed under its descriptor lock.
C25_ClaimedWithZeroRefs ==
    [][\A c \in Cores : Claims(c) => descriptors[plv[c].cur].refs = 0]_vars

\* C25 (amended): a bpage is claimed under its descriptor lock only when no
\* message and no other call holds it: its refs is 0, or it is 1 and is the
\* reference of an owner whose lease has run out, which the claim takes over.
C25_ClaimedWhenUnheld ==
    [][\A c \in Cores : Claims(c) =>
          LET cur == plv[c].cur
              d == descriptors[cur]
          IN /\ d.lock = c
             /\ d.refs = (IF d.owner >= 0 THEN 1 ELSE 0)
             /\ d.owner >= 0 => ~d.lease
             /\ MsgRefs(Msgs, cur) = 0
             /\ \A c2 \in Cores : cur \notin InFlight(c2)]_vars

\* Core 2 is about to claim, under its lock, a bpage that core 1 owns with an
\* expired lease, while core 1 waits for that lock to carve a tail from it.
C25_Witness ==
    /\ ppc[2] = "gp_claim" /\ ppc[1] = "al_hint_lock"
    /\ cores[1].page_hint = plv[2].cur
    /\ descriptors[plv[2].cur].owner = 1
    /\ descriptors[plv[2].cur].refs = 1
    /\ ~descriptors[plv[2].cur].lease

\* Thread t is inside homa_rpc_free for record r, past the state change.
Freeing(t, r) == pc[t] \in {"free_grant", "free_lock_sock", "free_unlink"} /\ lv[t].r = r

\* Thread t can look at record r as a holder of the socket lock that is not the
\* homa_rpc_free call unlinking r, or as a walker of the active list standing at r.
Observes(t, r) ==
    \/ sockLock = t /\ ~Freeing(t, r)
    \/ pc[t] = "log_walk" /\ lv[t].cur = r

\* C26 as stated: no holder of the socket lock and no walker of the active list
\* ever has before it a record that is on the active list with state DEAD.
C26_NoDeadOnActiveSeen ==
    \A r \in Rpcs : \A t \in Threads :
        (alloc[r] = "live" /\ OnActive(anext, r) /\ rpc[r].state = "DEAD")
            => ~Observes(t, r)

\* C26: the unlinking is atomic under the socket lock, the state change is not part
\* of it. A record is on the active list iff it is on its bucket list, and then it
\* is not on the dead list; a record on the active list with state DEAD is one
\* whose homa_rpc_free call has set the state and has not yet unlinked it.
C26_UnlinkAtomicUnderSockLock ==
    \A r \in Rpcs : alloc[r] = "live" =>
        /\ OnActive(anext, r) <=> OnBucket(r)
        /\ OnActive(anext, r) => ~OnDead(r)
        /\ OnDead(r) => rpc[r].state = "DEAD"
        /\ (OnActive(anext, r) /\ rpc[r].state = "DEAD")
               => \E t \in Threads : Freeing(t, r)

\* A walker stands at a record, and another thread holds the socket lock, while
\* homa_rpc_free has marked that record DEAD and waits to unlink it.
C26_Witness ==
    \E r \in Rpcs : \E t, u \in Threads :
        /\ alloc[r] = "live" /\ OnActive(anext, r) /\ rpc[r].state = "DEAD"
        /\ Freeing(t, r) /\ u # t
        /\ pc[u] = "log_walk" /\ lv[u].cur = r

\* ------------------------------------ homa_rpc_new_server, statement by statement
\* homa_bucket_lock and the scan of the bucket: the record found is returned
\* locked; when nothing matches the call goes on to build a record, the lock held.
NsLockBucket(t) ==
    /\ pc[t] = "idle"
    /\ \E id \in ServerIds, sport \in Ports, saddr \in Addrs :
        LET b == ServerBucket(id)
            Match(q) == ServerMatch(rpc[q], id, sport, saddr)
            found == FirstMatch(bucketRpcs[b], Match)
            args == [NoLocals EXCEPT !.op = "new_server", !.id = id, !.sport = sport,
                                     !.saddr = saddr]
        IN
        /\ bucketLock[b] = 0
        /\ Lock(b, t)
        /\ IF found # NULL
           THEN /\ SetPc(t, "held")
                /\ lv' = [lv EXCEPT ![t] = [args EXCEPT !.r = found, !.created = 0]]
           ELSE /\ SetPc(t, "ns_alloc")
                /\ lv' = [lv EXCEPT ![t] = args]
    /\ UNCHANGED <<lent, alloc, rpc, anext, bucketRpcs, sockLock, dead_rpcs, shutdown,
                   protect_count, dead_skbs, next_outgoing_id, assigned, freeDone>>
    /\ UNCHANGED <<poolVars, prioVars>>

\* kmalloc, homa_peer_find, the initialisation of the fields and
\* homa_message_in_init; a failure goes to the label error, which unlocks the bucket.
NsAlloc(t) ==
    LET b == ServerBucket(lv[t].id) IN
    /\ pc[t] = "ns_alloc"
    /\ \E outcome \in {"ENOMEM", "EPEER", "EMSGIN", "ok"} :
        IF outcome = "ok"
        THEN /\ HaveSlot
             /\ alloc' = [alloc EXCEPT ![FreshSlot] = "live"]
             /\ rpc' = [rpc EXCEPT ![FreshSlot] =
                           NewServerRpc(lv[t].id, lv[t].sport, lv[t].saddr, 0)]
             /\ SetPc(t, "ns_lock_sock")
             /\ lv' = [lv EXCEPT ![t] = [@ EXCEPT !.r = FreshSlot]]
             /\ UNCHANGED bucketLock
        ELSE /\ Lock(b, 0)
             /\ SetPc(t, "ret")
             /\ lv' = [lv EXCEPT ![t] = [NoLocals EXCEPT !.err = outcome]]
             /\ UNCHANGED <<alloc, rpc>>
    /\ UNCHANGED <<lent, anext, bucketRpcs, sockLock, dead_rpcs, shutdown, protect_count,
                   dead_skbs, next_outgoing_id, assigned, freeDone>>
    /\ UNCHANGED <<poolVars, prioVars>>

NewServerSteps(t) == NsLockBucket(t) \/ NsAlloc(t) \/ NsLockSock(t) \/ NsPublish(t)

\* Construction, statement by statement: both threads create client and server
\* RPCs, free them and let go of them while the socket may be shut down.
NextAlloc ==
    \/ \E t \in Threads : NewClient(t)
    \/ \E t \in Threads : NewServerSteps(t)
    \/ \E t \in Threads : Free(t)
    \/ \E t \in Threads : CallerUnlock(t)
    \/ \E t \in Threads : RetDone(t)
    \/ Shutdown

SpecAlloc == Init /\ [][NextAlloc]_vars

\* Thread t holds the socket lock or the lock of some bucket.
HoldsSpinLock(t) == sockLock = t \/ HeldBuckets(t) # {}

\* Thread t runs the kmalloc and the homa_peer_find of a constructor in this step:
\* homa_rpc_new_client from its entry, homa_rpc_new_server after its scan.
AllocatesNow(t) ==
    \/ pc[t] = "idle" /\ lv'[t].op = "new_client"
    \/ pc[t] = "idle" /\ pc'[t] = "ret" /\ lv'[t].err \in {"ENOMEM", "EPEER"}
    \/ pc[t] = "ns_alloc" /\ pc'[t] # "ns_alloc"

\* C27: a constructor allocates the record and resolves the peer while its thread
\* holds neither the socket lock nor a bucket lock.
C27_NoAllocUnderLock ==
    [][\A t \in Threads : AllocatesNow(t) => ~HoldsSpinLock(t)]_vars

\* The non-list fields of a record that never change once set: id, bucket, peer,
\* dport and magic, and a state that is one of the states of a record.
Initialised(rec) ==
    /\ rec.magic = 1
    /\ rec.id # 0 /\ rec.peer \in Addrs /\ rec.dport \in Ports
    /\ rec.bucket \in {ClientBucket(rec.id), ServerBucket(rec.id)}
    /\ rec.state \in {"OUTGOING", "INCOMING", "DEAD"}

\* The fields as a constructor leaves them just before it inserts the record.
FreshlyBuilt(rec) ==
    /\ Initialised(rec)
    /\ rec.state \in {"OUTGOING", "INCOMING"}
    /\ ~rec.cant_reap /\ ~rec.pkts_ready
    /\ rec.grants_in_progress = 0 /\ rec.active_xmits = 0
    /\ rec.msgout_length = -1 /\ rec.num_skbs = 0
    /\ rec.interest = NULL /\ ~rec.on_ready /\ ~rec.on_buf
    /\ rec.state = "OUTGOING" => rec.msgin_length = -1
    /\ rec.state = "INCOMING" => rec.msgin_length >= 0

\* C28: every record on a bucket list or on the active list is allocated and fully
\* initialised; and a record enters the two lists in one step, taken by a
\* constructor that holds the socket lock and the record's bucket lock, after all
\* of its non-list fields have been set.
C28_InsertedFullyInitialised ==
    /\ [](\A r \in Rpcs : (OnBucket(r) \/ OnActive(anext, r)) =>
              alloc[r] = "live" /\ Initialised(rpc[r]))
    /\ [][\A r \in Rpcs :
            ((~OnBucket(r) /\ OnBucket(r)') \/ (~OnActive(anext, r) /\ OnActive(anext', r)))
            => /\ ~OnBucket(r) /\ ~OnActive(anext, r)
               /\ OnBucket(r)' /\ OnActive(anext', r)
               /\ FreshlyBuilt(rpc[r])
               /\ \E t \in Threads : /\ pc[t] \in {"nc_publish", "ns_publish"}
                                     /\ lv[t].r = r
                                     /\ sockLock = t
                                     /\ bucketLock[rpc[r].bucket] = t]_vars

\* homa_rpc_new_server has found a record on its bucket list and holds the bucket
\* lock, while a client record is on the active list as well.
C28_Witness ==
    \E t \in Threads : \E q \in Rpcs :
        /\ pc[t] = "held" /\ lv[t].op = "new_server" /\ lv[t].created = 0
        /\ OnBucket(lv[t].r) /\ bucketLock[rpc[lv[t].r].bucket] = t
        /\ Initialised(rpc[lv[t].r])
        /\ q # lv[t].r /\ OnActive(anext, q) /\ rpc[q].state = "OUTGOING"

\* Thread t is inside homa_grant_free_rpc, called by homa_rpc_free for record r,
\* and has released the record's bucket lock.
GrantNotifying(t, r) == pc[t] = "free_grant" /\ lv[t].r = r

\* C29: while homa_rpc_free notifies the grant scheduler the record is DEAD
\* already, the socket lock is not yet held by the call, and the record is
\* allocated, still on its bucket list and the active list and not on the dead
\* list, in no batch that homa_rpc_reap has collected; no step taken during the
\* notification frees the record or takes a packet from it.
C29_GrantNotifiedBeforeDeadList ==
    /\ [](\A t \in Threads : \A r \in Rpcs : GrantNotifying(t, r) =>
              /\ rpc[r].state = "DEAD"
              /\ sockLock # t
              /\ alloc[r] = "live"
              /\ ~OnDead(r) /\ OnBucket(r) /\ OnActive(anext, r)
              /\ \A u \in Threads : r \notin SeqToSet(lv[u].rpcs))
    /\ [][\A t \in Threads : \A r \in Rpcs : GrantNotifying(t, r) =>
              /\ alloc'[r] = "live"
              /\ rpc'[r].num_skbs = rpc[r].num_skbs
              /\ rpc'[r].msgin_packets = rpc[r].msgin_packets
              /\ rpc'[r].msgin_length = rpc[r].msgin_length]_vars

\* The grant scheduler is being notified about a record that holds packets while
\* homa_rpc_reap has the socket lock and other records on the dead list.
C29_Witness ==
    \E t, u \in Threads : \E r \in Rpcs :
        /\ GrantNotifying(t, r)
        /\ rpc[r].num_skbs > 0
        /\ bucketLock[rpc[r].bucket] # t
        /\ pc[u] = "reap_batch" /\ sockLock = u /\ dead_rpcs # <<>>

\* ------------------------------------------------- waiters (struct homa_interest)
\* A thread registers its interest in a record it finds on a bucket list, under
\* the record's lock, and goes to sleep.
WaitRegister(t) ==
    /\ pc[t] = "idle"
    /\ \E r \in Rpcs :
        /\ OnBucket(r)
        /\ bucketLock[rpc[r].bucket] = 0
        /\ rpc[r].interest = NULL
        /\ rpc' = [rpc EXCEPT ![r] = [@ EXCEPT !.interest = t]]
        /\ lv' = [lv EXCEPT ![t] = [NoLocals EXCEPT !.op = "wait", !.reg_rpc = r]]
    /\ SetPc(t, "waiting")
    /\ UNCHANGED <<lent, alloc, anext, bucketRpcs, bucketLock, sockLock, dead_rpcs, shutdown,
                   protect_count, dead_skbs, next_outgoing_id, assigned, freeDone>>
    /\ UNCHANGED <<poolVars, prioVars>>

\* A sleeping thread gives up (a signal, a timeout): it takes its registration
\* back under the record's lock.
WaitCancel(t) ==
    LET r == lv[t].reg_rpc IN
    /\ pc[t] = "waiting"
    /\ r # NULL
    /\ bucketLock[rpc[r].bucket] = 0
    /\ rpc' = [rpc EXCEPT ![r] = [@ EXCEPT !.interest = NULL]]
    /\ lv' = [lv EXCEPT ![t] = NoLocals]
    /\ SetPc(t, "idle")
    /\ UNCHANGED <<lent, alloc, anext, bucketRpcs, bucketLock, sockLock, dead_rpcs, shutdown,
                   protect_count, dead_skbs, next_outgoing_id, assigned, freeDone>>
    /\ UNCHANGED <<poolVars, prioVars>>

\* A thread that was woken runs again.
WaitReturn(t) ==
    /\ pc[t] = "waiting"
    /\ lv[t].woken > 0
    /\ lv' = [lv EXCEPT ![t] = NoLocals]
    /\ SetPc(t, "idle")
    /\ UNCHANGED <<lent, alloc, rpc, anext, bucketRpcs, bucketLock, sockLock, dead_rpcs,
                   shutdown, protect_count, dead_skbs, next_outgoing_id, assigned, freeDone>>
    /\ UNCHANGED <<poolVars, prioVars>>

\* Under the socket lock an active record without a waiter is queued on
\* hsk->ready_requests / ready_responses (ready_links), or on the list of records
\* that wait for buffer space (buf_links).
Enqueue(r) ==
    /\ OnActive(anext, r)
    /\ sockLock = 0
    /\ \E which \in {"ready", "buf"} :
        IF which = "ready"
        THEN /\ rpc[r].interest = NULL /\ ~rpc[r].on_ready
             /\ rpc' = [rpc EXCEPT ![r] = [@ EXCEPT !.on_ready = TRUE]]
        ELSE /\ ~rpc[r].on_buf
             /\ rpc' = [rpc EXCEPT ![r] = [@ EXCEPT !.on_buf = TRUE]]
    /\ UNCHANGED <<lent, alloc, anext, bucketRpcs, bucketLock, sockLock, dead_rpcs, shutdown,
                   protect_count, dead_skbs, next_outgoing_id, pc, lv, assigned, freeDone>>
    /\ UNCHANGED <<poolVars, prioVars>>

Wait(t) == WaitRegister(t) \/ WaitCancel(t) \/ WaitReturn(t)

\* Waiters: both threads create, look up and free server RPCs and wait for them,
\* while records are queued as ready or as waiting for buffers.
NextWait ==
    \/ \E t \in Threads : NewServer(t)
    \/ \E t \in Threads : FindServer(t)
    \/ \E t \in Threads : Free(t)
    \/ \E t \in Threads : CallerUnlock(t)
    \/ \E t \in Threads : RetDone(t)
    \/ \E t \in Threads : Wait(t)
    \/ \E r \in Rpcs : Enqueue(r)

SpecWait == Init /\ [][NextWait]_vars

\* Thread t takes the step in which homa_rpc_free unlinks record r.
Kills(t, r) == pc[t] = "free_unlink" /\ lv[t].r = r /\ pc'[t] # "free_unlink"

\* C30: the step of homa_rpc_free that unlinks a record with a registered waiter
\* is taken with the socket lock held, clears the registration on both sides and
\* wakes the waiter once; a record on the dead list has no waiter and is on neither
\* the ready list nor the buf list, no thread is registered on it, and no waiter
\* has been woken more than once.
C30_FreeWakesWaiterOnce ==
    /\ [][\A t \in Threads : \A r \in Rpcs :
            (Kills(t, r) /\ rpc[r].interest # NULL) =>
                LET i == rpc[r].interest IN
                /\ sockLock = t
                /\ lv[i].reg_rpc = r
                /\ lv'[i].reg_rpc = NULL
                /\ lv'[i].woken = lv[i].woken + 1
                /\ pc'[i] = "waiting"
                /\ rpc'[r].interest = NULL
                /\ ~rpc'[r].on_ready /\ ~rpc'[r].on_buf]_vars
    /\ [](\A r \in Rpcs : (alloc[r] = "live" /\ OnDead(r)) =>
              /\ rpc[r].interest = NULL
              /\ ~rpc[r].on_ready /\ ~rpc[r].on_buf
              /\ \A u \in Threads : lv[u].reg_rpc # r)
    /\ [](\A u \in Threads : lv[u].woken <= 1)

\* A waiter has been woken by the homa_rpc_free call that put its record on the
\* dead list, and has not run yet.
C30_Witness ==
    \E u \in Threads : \E r \in Rpcs :
        /\ pc[u] = "waiting" /\ lv[u].woken = 1 /\ lv[u].reg_rpc = NULL
        /\ alloc[r] = "live" /\ OnDead(r) /\ r \in freeDone

\* The candidates the claim lists as skipped and as claimed.
Skipped(d) ==
    \/ d.refs >= 2
    \/ d.refs = 1 /\ d.owner = -1
    \/ d.refs = 1 /\ d.owner # -1 /\ d.lease
Claimable(d) ==
    \/ d.refs = 0
    \/ d.refs = 1 /\ d.owner # -1 /\ ~d.lease

\* C31: a candidate of homa_pool_get_pages is passed over when its refs is 2 or
\* more, when refs is 1 without an owner or with an owner whose lease runs, or
\* when its try-lock fails, and nothing of it changes; otherwise the scan goes on
\* to lock it. With the lock held the same test decides again, on the descriptor
\* as it is then: the bpage is claimed when refs is 0, or 1 with an expired owner,
\* and is let go unchanged otherwise.
C31_CandidateEligibility ==
    [][\A c \in Cores :
         /\ (ppc[c] = "gp_pick"
                /\ cores'[c].next_candidate = cores[c].next_candidate + 1) =>
                LET d == descriptors[cores[c].next_candidate] IN
                /\ Skipped(d) <=> ~Claimable(d)
                /\ Skipped(d) => ppc'[c] = "gp_pick"
                /\ Claimable(d) => ppc'[c] = "gp_lock"
                /\ descriptors' = descriptors
         /\ (ppc[c] = "gp_lock" /\ ppc'[c] # "gp_lock") =>
                LET cur == plv[c].cur IN
                IF descriptors[cur].lock # 0
                THEN ppc'[c] = "gp_pick" /\ descriptors' = descriptors
                     /\ plv'[c].pages = plv[c].pages
                ELSE ppc'[c] = "gp_claim" /\ descriptors'[cur].lock = c
                     /\ descriptors'[cur].refs = descriptors[cur].refs
         /\ (ppc[c] = "gp_claim" /\ ppc'[c] # "gp_claim") =>
                LET cur == plv[c].cur
                    d == descriptors[cur]
                IN /\ Skipped(d) <=> ~Claimable(d)
                   /\ Skipped(d) =>
                        /\ plv'[c].pages = plv[c].pages
                        /\ descriptors' = [descriptors EXCEPT ![cur].lock = 0]
                        /\ ppc'[c] = "gp_pick"
                   /\ Claimable(d) =>
                        /\ plv'[c].pages = Append(plv[c].pages, cur)
                        /\ descriptors'[cur].refs >= 1]_vars

\* The state changed while the lock was being taken: a core holds the lock of a
\* candidate that another core has claimed since it was picked.
C31_Witness ==
    \E c \in Cores :
        /\ ppc[c] = "gp_claim" /\ Skipped(descriptors[plv[c].cur])
        /\ descriptors[plv[c].cur].lock = c

\* C32: homa_pool_get_pages takes count off free_bpages when it starts; each
\* bpage it claims with set_owner = false ends with refs 1 and owner -1, and
\* free_bpages goes up by one exactly when the bpage had an owner (whose lease had
\* expired); between these steps the call leaves free_bpages alone. So the call
\* changes free_bpages by -count plus the number of owned bpages it stole.
C32_StealResetsOwner ==
    [][\A c \in Cores :
         /\ (ppc[c] = "gp_reserve" /\ ppc'[c] = "gp_pick") =>
                pool'.free_bpages = pool.free_bpages - plv[c].count
         /\ (ppc[c] = "gp_claim" /\ plv'[c].pages # plv[c].pages /\ ~plv[c].set_owner) =>
                LET cur == plv[c].cur
                    d == descriptors[cur]
                IN /\ d.owner # -1 => d.refs <= 1 /\ ~d.lease
                   /\ descriptors'[cur].owner = -1
                   /\ descriptors'[cur].refs = 1
                   /\ pool'.free_bpages
                          = pool.free_bpages + (IF d.owner # -1 THEN 1 ELSE 0)
         /\ (ppc[c] \in {"gp_pick", "gp_lock"}
             \/ (ppc[c] = "gp_claim" /\ plv'[c].pages = plv[c].pages)) =>
                pool'.free_bpages = pool.free_bpages]_vars

\* A request for two bpages without ownership has returned them, one of them
\* stolen from an owner whose lease had expired: free_bpages went down by one.
C32_Witness ==
    \E c \in Cores :
        /\ ppc[c] = "al_full_done" /\ plv[c].ret = 0
        /\ plv[c].count = 2 /\ Len(plv[c].pages) = 2 /\ ~plv[c].set_owner
        /\ plv[c].dfree = -1
        /\ \A i \in 1..2 : /\ descriptors[plv[c].pages[i]].owner = -1
                           /\ descriptors[plv[c].pages[i]].refs = 1

\* The bytes of its bpage that the i-th buffer of message m covers: the last
\* buffer of a message with a tail covers the tail, every other one a whole bpage.
Extent(m, i) ==
    LET o == msgin[m].offsets[i]
    IN IF i = Len(msgin[m].offsets) /\ msgin[m].tail > 0
       THEN {<<o[1], b>> : b \in o[2]..(o[2] + msgin[m].tail - 1)}
       ELSE {<<o[1], b>> : b \in 0..(BpageSize - 1)}

\* The buffers that messages hold.
Buffers == {<<m, i>> : m \in Msgs, i \in 1..MaxLen} \cap
           {x \in Msgs \X (1..MaxLen) : x[2] <= Len(msgin[x[1]].offsets)}

\* Core c carves a tail from its hinted bpage in this step.
Carves(c) == ppc[c] = "al_hint" /\ ppc'[c] = "al_ret"

TurnsToNewPage(c) ==
    LET h == cores[c].page_hint
        d == descriptors[h]
    IN /\ ppc'[c] = "gp_reserve"
       /\ plv'[c].count = 1 /\ plv'[c].set_owner
       /\ msgin' = msgin /\ cores' = cores
       /\ descriptors'[h].lock = 0
       /\ IF d.owner = c
          THEN descriptors'[h].owner = -1 /\ descriptors'[h].refs = d.refs - 1
          ELSE descriptors'[h].owner = d.owner /\ descriptors'[h].refs = d.refs
NewPageBecomesHint(c) ==
    (ppc[c] = "al_tail_done" /\ plv[c].ret = 0 /\ ppc'[c] # "al_tail_done") =>
        LET page == plv[c].pages[1] IN
        /\ descriptors[page].owner = c /\ descriptors[page].refs = 2
        /\ cores'[c].page_hint = page
        /\ cores'[c].allocated = plv[c].tail
        /\ msgin'[plv[c].msg].offsets = Append(msgin[plv[c].msg].offsets, <<page, 0>>)

CallerReceive(t) ==
    /\ pc[t] = "held"
    /\ rpc[lv[t].r].state # "DEAD"
    /\ rpc[lv[t].r].msgin_length >= 0
    /\ rpc[lv[t].r].msgin_packets = 0
    /\ \E n \in 1..MaxSkbs :
        rpc' = [rpc EXCEPT ![lv[t].r] = [@ EXCEPT !.msgin_packets = n]]
    /\ UNCHANGED <<lent, alloc, anext, bucketRpcs, bucketLock, sockLock, dead_rpcs, shutdown,
                   protect_count, dead_skbs, next_outgoing_id, pc, lv, assigned, freeDone>>
    /\ UNCHANGED <<poolVars, prioVars>>

\* Dead-buffer accounting: thread 1 creates server RPCs, fills their outgoing
\* messages, receives packets for them and frees them; thread 2 reaps with a
\* budget of one batch or of more than one.
NextDeadSkbs ==
    \/ NewServer(1)
    \/ CallerFill(1)
    \/ CallerReceive(1)
    \/ Free(1)
    \/ CallerUnlock(1)
    \/ RetDone(1)
    \/ Reap(2, {1, MaxCount})
    \/ RetDone(2)

SpecDeadSkbs == Init /\ [][NextDeadSkbs]_vars

\* The packet buffers held by the records of a dead list.
RECURSIVE DeadBuffers(_)
DeadBuffers(dl) ==
    IF dl = <<>> THEN 0 ELSE DeadSkbsOf(rpc[Head(dl)]) + DeadBuffers(Tail(dl))

\* C35: hsk->dead_skbs is the number of packet buffers (msgout.num_skbs plus the
\* packets queued in msgin) held by the records on the dead list, and is never
\* negative.
C35_DeadSkbsMatchesDeadList ==
    /\ dead_skbs = DeadBuffers(dead_rpcs)
    /\ dead_skbs >= 0

\* C36: homa_find_client_rpc and homa_find_server_rpc never return a record whose
\* state is DEAD.
C36_FindNeverReturnsDead ==
    [][\A t \in Threads :
         (pc[t] = "idle" /\ pc'[t] = "held" /\ IsLookup(lv'[t].op))
             => rpc[lv'[t].r].state # "DEAD"]_vars

\* Thread t completes the unlinking part of a homa_rpc_free of record r in this step.
Unlinks(t, r) == pc[t] = "free_unlink" /\ pc'[t] = "held" /\ lv[t].r = r

\* Thread t is inside a teardown of record r that it started.
TearingDown(t, r) ==
    pc[t] \in {"free_grant", "free_lock_sock", "free_unlink"} /\ lv[t].r = r

\* C37: however homa_rpc_free calls on one record interleave, the record is taken off
\* its bucket list and the active list once, put on the dead list once, and its
\* buffers are added to dead_skbs once.
C37_TeardownExactlyOnce ==
    /\ [](/\ \A i, j \in 1..Len(dead_rpcs) : dead_rpcs[i] = dead_rpcs[j] => i = j
          /\ \A r \in Rpcs : Cardinality({t \in Threads : TearingDown(t, r)}) <= 1
          /\ \A r \in Rpcs :
               (/\ r \in freeDone /\ alloc[r] = "live"
                /\ \A t \in Threads : ~TearingDown(t, r))
                   => /\ OnDead(r) \/ \E t \in Threads : r \in SeqToSet(lv[t].rpcs)
                      /\ ~OnActive(anext, r)
                      /\ r \notin SeqToSet(bucketRpcs[rpc[r].bucket]))
    /\ [][\A t \in Threads, r \in Rpcs :
            Unlinks(t, r) =>
                /\ r \in SeqToSet(bucketRpcs[rpc[r].bucket])
                /\ r \notin SeqToSet(bucketRpcs'[rpc[r].bucket])
                /\ OnActive(anext, r) /\ ~OnActive(anext', r)
                /\ ~OnDead(r)
                /\ dead_rpcs' = Append(dead_rpcs, r)
                /\ dead_skbs' = dead_skbs + DeadSkbsOf(rpc[r])]_vars

\* A second homa_rpc_free on a record has returned while the first is still between
\* its grant notification and the unlinking.
C37_Witness ==
    \E t, u \in Threads :
        /\ t # u /\ TearingDown(t, lv[t].r)
        /\ pc[u] = "held" /\ lv[u].r = lv[t].r /\ lv[t].r \in freeDone

\* Two reapers on one socket: both threads call homa_rpc_reap, with a budget that may
\* be zero or negative, while thread 1 also creates server RPCs that own bpages,
\* fills in their messages and frees them.
NextReapers ==
    \/ NsScanPages(1) \/ NsLockSock(1) \/ NsPublish(1)
    \/ CallerFill(1)
    \/ Free(1)
    \/ CallerUnlock(1)
    \/ \E t \in Threads : RetDone(t)
    \/ \E t \in Threads : Reap(t, {-1, 0, 1, MaxCount})

SpecReapers == Init /\ [][NextReapers]_vars

\* The records a reaper has collected in its batch and not released yet.
Collected(t) ==
    IF pc[t] \in {"reap_free", "reap_kfree"}
    THEN {lv[t].rpcs[k] : k \in (lv[t].i + 1)..Len(lv[t].rpcs)}
    ELSE {}

\* The tx buffers still attached to the records that exist.
RECURSIVE TxOfLive(_, _, _)
TxOfLive(al, rp, n) ==
    IF n = 0 THEN 0
    ELSE (IF al[n] = "live" THEN rp[n].num_skbs ELSE 0) + TxOfLive(al, rp, n - 1)

\* C38: however concurrent homa_rpc_reap calls interleave, a dead record is released
\* by one reaper only and once, each tx buffer is freed once, and a record's bpages
\* go back to the pool once.
C38_ReapersReleaseOnce ==
    /\ [](/\ \A t, u \in Threads : t # u => Collected(t) \cap Collected(u) = {}
          /\ \A t \in Threads : \A r \in Collected(t) :
                alloc[r] = "live" /\ ~OnDead(r) /\ rpc[r].num_skbs = 0
          /\ lent = PagesOfLive(alloc, rpc, MaxRpcs))
    /\ [][\A t \in Threads :
            /\ (pc[t] = "reap_batch" /\ pc'[t] = "reap_free") =>
                 /\ lv'[t].num_skbs >= 0
                 /\ TxOfLive(alloc', rpc', MaxRpcs)
                        = TxOfLive(alloc, rpc, MaxRpcs) - lv'[t].num_skbs
            /\ (pc[t] = "reap_kfree" /\ pc'[t] = "reap_free") =>
                 LET r == lv[t].rpcs[lv[t].i + 1] IN
                 /\ alloc[r] = "live" /\ alloc'[r] = "freed"
                 /\ lent' = lent - rpc[r].num_bpages
                 /\ \A q \in Rpcs \ {r} : alloc'[q] = alloc[q]]_vars

\* Both reapers hold a collected record at once, and one of the records owns a
\* bpage and had tx buffers.
C38_Witness ==
    /\ \A t \in Threads : Collected(t) # {}
    /\ \E t \in Threads : \E r \in Collected(t) :
          rpc[r].num_bpages > 0 /\ rpc[r].msgout_length > 0

\* Thread t makes a call of homa_rpc_reap with count <= 0 in this step: the while
\* loop is not entered and the call is at its return.
ReapsNothing(t) == pc[t] = "idle" /\ pc'[t] = "ret" /\ lv'[t].op = "reap"

\* C39: homa_rpc_reap called with count <= 0 frees nothing, leaves the dead list and
\* dead_skbs as they are and returns 0, on every such call.
C39_ZeroBudgetReturnsZero ==
    [][\A t \in Threads :
         ReapsNothing(t) =>
            /\ UNCHANGED <<alloc, rpc, lent, dead_rpcs, dead_skbs>>
            /\ lv'[t].result = 0]_vars

\* ------------------------------------------------------- homa_prios_changed
\* The values a cutoff is given: below HOMA_MAX_MESSAGE_LENGTH, or not.
CutoffValues == {0, HOMA_MAX_MESSAGE_LENGTH}

\* The priority configuration is modified, one parameter at a time: num_priorities
\* or one of the cutoffs is given a new value, and homa_prios_changed is called next.
Configure ==
    /\ prios.at = "idle"
    /\ homa.cutoff_version < MaxCalls
    /\ \/ \E n \in (-2)..(HOMA_MAX_PRIORITIES + 1) :
             homa' = [homa EXCEPT !.num_priorities = n]
       \/ \E i \in PrioIndexes, v \in CutoffValues :
             homa' = [homa EXCEPT !.unsched_cutoffs[i] = v]
    /\ prios' = [prios EXCEPT !.at = "changed"]
    /\ UNCHANGED <<rpcVars, poolVars>>

\* homa_prios_changed up to the head of its loop: num_priorities is clamped and
\* unsched_cutoffs[0] is set to INT_MAX.
PriosStart ==
    /\ prios.at = "changed"
    /\ homa' = [homa EXCEPT !.num_priorities = Min(@, HOMA_MAX_PRIORITIES),
                            !.unsched_cutoffs[0] = INT_MAX]
    /\ prios' = [at |-> "loop", i |-> HOMA_MAX_PRIORITIES - 1, wrote |-> {0},
                 old_version |-> homa.cutoff_version]
    /\ UNCHANGED <<rpcVars, poolVars>>

\* What reading unsched_cutoffs[i] yields: anything at all if i is outside the array.
CutoffAt(i) == IF i \in PrioIndexes THEN {homa.unsched_cutoffs[i]} ELSE CutoffValues

\* unsched_cutoffs after a write of v at index i; a write outside the array lands in
\* whatever lies next to it.
CutoffWritten(cutoffs, i, v) ==
    IF i \in PrioIndexes THEN [cutoffs EXCEPT ![i] = v] ELSE cutoffs

\* One iteration of the loop of homa_prios_changed, i going down from
\* HOMA_MAX_PRIORITIES-1.
PriosLoop ==
    LET i == prios.i IN
    /\ prios.at = "loop"
    /\ i >= -MaxBelow
    /\ IF i >= homa.num_priorities
       THEN /\ homa' = [homa EXCEPT !.unsched_cutoffs = CutoffWritten(@, i, 0)]
            /\ prios' = [prios EXCEPT !.i = i - 1, !.wrote = @ \cup {i}]
       ELSE IF i = 0
       THEN /\ homa' = [homa EXCEPT !.unsched_cutoffs = CutoffWritten(@, i, INT_MAX),
                                    !.max_sched_prio = 0]
            /\ prios' = [prios EXCEPT !.at = "bump", !.wrote = @ \cup {i}]
       ELSE \E cutoff \in CutoffAt(i) :
              IF cutoff >= HOMA_MAX_MESSAGE_LENGTH
              THEN /\ homa' = [homa EXCEPT !.max_sched_prio = i - 1]
                   /\ prios' = [prios EXCEPT !.at = "bump"]
              ELSE /\ prios' = [prios EXCEPT !.i = i - 1]
                   /\ UNCHANGED homa
    /\ UNCHANGED <<rpcVars, poolVars>>

\* homa->cutoff_version++ and the return.
PriosReturn ==
    /\ prios.at = "bump"
    /\ homa' = [homa EXCEPT !.cutoff_version = @ + 1]
    /\ prios' = [prios EXCEPT !.at = "idle"]
    /\ UNCHANGED <<rpcVars, poolVars>>

PriosChanged == PriosStart \/ PriosLoop \/ PriosReturn

NextPrios == Configure \/ PriosChanged

SpecPrios == Init /\ [][NextPrios]_vars

\* C40: homa_prios_changed writes unsched_cutoffs only at indexes
\* 0..HOMA_MAX_PRIORITIES-1, and when it returns cutoff_version is one more than
\* before, unsched_cutoffs[0] is INT_MAX, unsched_cutoffs[i] is 0 for every
\* i >= num_priorities, and 0 <= max_sched_prio < num_priorities; this for every
\* num_priorities, zero and negative ones included.
C40_PriosChangedPostcondition ==
    /\ [](prios.wrote \subseteq PrioIndexes)
    /\ [][(prios.at = "bump" /\ prios'.at = "idle") =>
            /\ homa'.cutoff_version = prios.old_version + 1
            /\ homa'.unsched_cutoffs[0] = INT_MAX
            /\ \A i \in PrioIndexes :
                  i >= homa'.num_priorities => homa'.unsched_cutoffs[i] = 0
            /\ 0 <= homa'.max_sched_prio
            /\ homa'.max_sched_prio < homa'.num_priorities]_vars

====
